---- MODULE Spec2Model ----
(***************************************************************************)
(* quiver: a file-based dataset store (library / subject / item).          *)
(* The model covers one subject directory of one library: the item         *)
(* directories with their parquet files and metadata documents, the        *)
(* _snapshots directory, the subject's metadata and schema documents, and   *)
(* the Subject handles (python objects) that cache part of that state.      *)
(***************************************************************************)
EXTENDS Integers, Sequences, FiniteSets, TLC

VARIABLES
    fs,          \* directory of the subject (an item's, or _snapshots) -> its own
                 \* key directories, parquet files and metadata document
    snaps,       \* snapshot name -> copy of the subject tree under _snapshots
    subjMeta,    \* <subject>/quiver_metadata.json (None when the file is absent)
    subjSchema,  \* <subject>/quiver_schema.json   (None when the file is absent)
    handles,     \* the Subject objects: handle id -> attributes
    now,         \* the clock read by datetime.now() / time.time()
    res,         \* the last call: operation, arguments and outcome
    PARTITION_SIZE,  \* config.PARTITION_SIZE
    writers      \* the appends in progress: writer id -> its position in
                 \* Subject.append and what it has read

vars == <<fs, snaps, subjMeta, subjSchema, handles, now, res, PARTITION_SIZE, writers>>

----------------------------------------------------------------------------
(* Bounds of the model                                                      *)

MaxRows == 2        \* rows of one input table
MaxFileRows == 3    \* rows a parquet file may grow to
MaxClock == 2       \* clock readings (metadata writes, timestamp names)

----------------------------------------------------------------------------
(* Python values                                                            *)

None == << >>
Some(x) == << x >>

\* str and list values of metadata['partition_on'] (isinstance(..., str))
PyStr(s) == [tag |-> "str", val |-> s]
PyList(s) == [tag |-> "list", val |-> s]

\* a python dict is a function; {} is the function with the empty domain
EmptyDict == [x \in {} |-> 0]

\* dict.get(key, None)
Get(d, key) == IF key \in DOMAIN d THEN Some(d[key]) ELSE None

\* {**a, **b}: the keys of b override those of a
Merge(a, b) == [x \in (DOMAIN a) \cup (DOMAIN b) |-> IF x \in DOMAIN b THEN b[x] ELSE a[x]]

----------------------------------------------------------------------------
(* Tables (polars DataFrame): a column -> dtype mapping and a row sequence. *)
(* Cell values are small integers, all exactly representable in every      *)
(* dtype used, and Null.                                                    *)

Null == -1

Int64 == [cls |-> "Int64"]
Float64 == [cls |-> "Float64"]

\* the other dtypes a parquet file's schema may hold
Int8 == [cls |-> "Int8"]
Int16 == [cls |-> "Int16"]
Int32 == [cls |-> "Int32"]
UInt8 == [cls |-> "UInt8"]
UInt16 == [cls |-> "UInt16"]
UInt32 == [cls |-> "UInt32"]
UInt64 == [cls |-> "UInt64"]
Float32 == [cls |-> "Float32"]
NullType == [cls |-> "Null"]
Boolean == [cls |-> "Boolean"]
Utf8 == [cls |-> "Utf8"]
Categorical == [cls |-> "Categorical"]
Date == [cls |-> "Date"]
Time == [cls |-> "Time"]

\* pl.Datetime(time_unit, time_zone) and pl.Duration(time_unit); the zone is
\* None or a name
Datetime(time_unit, time_zone) ==
    [cls |-> "Datetime", time_unit |-> time_unit, time_zone |-> time_zone]

Duration(time_unit) == [cls |-> "Duration", time_unit |-> time_unit]

Frame(schema, rows) == [kind |-> "DataFrame", schema |-> schema, rows |-> rows]

\* a data_obj that is neither a pandas nor a polars table
NotATable == [kind |-> "object", schema |-> << >>, rows |-> << >>]

IsTable(data_obj) == data_obj.kind = "DataFrame"

columns(df) == DOMAIN df.schema

\* df.with_columns(pl.lit(None).cast(dtype).alias(col))
AddNullColumn(df, col, dtype) ==
    Frame((col :> dtype) @@ df.schema,
          [i \in DOMAIN df.rows |-> (col :> Null) @@ df.rows[i]])

\* a cast that leaves the column's dtype as it is
CastColumn_keep(df, col, dtype) == df

\* df.with_columns(pl.col(col).cast(dtype)): Int64 <-> Float64 on integral
\* values keeps every value and retags the column
CastColumn(df, col, dtype) ==
    Frame([df.schema EXCEPT ![col] = dtype], df.rows)

\* the loop `for col, dtype in schema.items()` of write
RECURSIVE EnforceSchema(_, _, _)
EnforceSchema(df, schema, todo) ==
    IF todo = {} THEN df
    ELSE LET col == CHOOSE c \in todo : TRUE
             step == IF col \notin columns(df)
                        THEN AddNullColumn(df, col, schema[col])
                        ELSE CastColumn(df, col, schema[col])
         IN EnforceSchema(step, schema, todo \ {col})

RemoveAt(rows, i) == SubSeq(rows, 1, i - 1) \o SubSeq(rows, i + 1, Len(rows))

\* a sort that leaves the rows as they are
SortOutcomes_unsorted(rows, col) == {rows}

\* the outcomes of DataFrame.sort(col): ascending, nulls first; the order
\* among rows of equal key is not fixed (maintain_order=False). Equal rows
\* are taken once as the next row: swapping them gives the same outcome.
RECURSIVE SortOutcomes(_, _)
SortOutcomes(rows, col) ==
    IF rows = << >> THEN {<< >>}
    ELSE LET firsts == {i \in DOMAIN rows :
                           /\ \A j \in DOMAIN rows : rows[i][col] <= rows[j][col]
                           /\ \A j \in 1..(i - 1) : rows[j] # rows[i]}
         IN UNION {{<<rows[i]>> \o s : s \in SortOutcomes(RemoveAt(rows, i), col)} :
                   i \in firsts}

----------------------------------------------------------------------------
(* Names and paths. A name is the sequence of its characters.               *)

ItemNames == {<<"a">>, <<"b">>}

ParquetFile == "00000000.parquet"
AppendedFile == "appended_data.parquet"

\* the directory name polars gives a key value (write_parquet(partition_by=...))
HiveName(col, v) ==
    col \o "=" \o (IF v = Null THEN "__HIVE_DEFAULT_PARTITION__" ELSE ToString(v))

\* f"{col}={partition_values[i]}" of append
PartitionName(col, v) ==
    col \o "=" \o (IF v = Null THEN "None" ELSE ToString(v))

\* the key tuple of a row under the partition columns
KeyTuple(row, cols) == [i \in DOMAIN cols |-> row[cols[i]]]

KeyTuples(rows, cols) == {KeyTuple(rows[i], cols) : i \in DOMAIN rows}

\* a grouping that keeps the first row of a key only, and one that puts every
\* row into every key
RowsOfTuple_first(rows, cols, kt) ==
    SubSeq(SelectSeq(rows, LAMBDA r : KeyTuple(r, cols) = kt), 1, 1)

RowsOfTuple_all(rows, cols, kt) == rows

\* the rows of a table that have the key tuple kt, in table order
RowsOfTuple(rows, cols, kt) == SelectSeq(rows, LAMBDA r : KeyTuple(r, cols) = kt)

HiveDir(cols, kt) == [i \in DOMAIN cols |-> HiveName(cols[i], kt[i])]

PartitionDir(cols, kt) == [i \in DOMAIN cols |-> PartitionName(cols[i], kt[i])]

\* an item directory: its key directories, its parquet files (path relative
\* to the item -> table) and its quiver_metadata.json
ItemDir(dirs, files, meta) == [dirs |-> dirs, files |-> files, meta |-> meta]

EmptyDir == ItemDir({}, EmptyDict, None)

----------------------------------------------------------------------------
(* utils.py                                                                 *)

\* read_metadata: the stored document, {} when the file is absent
read_metadata(doc) == IF doc = None THEN EmptyDict ELSE doc[1]

\* write_metadata: the document stored at a path that exists, at time t
write_metadata(doc, metadata, overwrite, t) ==
    LET merged == IF ~overwrite THEN Merge(read_metadata(doc), metadata) ELSE metadata
    IN Some(Merge(merged, "_updated" :> t))

\* write_metadata: the caller's dictionary after the call. Without overwrite
\* `metadata` is bound to a new merged dictionary before "_updated" is set;
\* with overwrite the entry is set in the caller's own
write_metadata_arg(metadata, overwrite, t) ==
    IF ~overwrite THEN metadata ELSE Merge(metadata, "_updated" :> t)

\* A type string of quiver_schema.json is the sequence of its tokens: words,
\* and the characters ( ) , = ' and blank, each a token of its own.
Punctuation == {"(", ")", ",", " ", "=", "'"}

\* schema_to_dict.dtype_to_str: hasattr(dtype, 'time_unit') holds of Datetime
\* and Duration dtypes, str(dtype) is the name of a dtype without parameters
dtype_to_str(dtype) ==
    IF "time_unit" \in DOMAIN dtype
    THEN IF "time_zone" \in DOMAIN dtype /\ dtype.time_zone # None
         THEN <<"Datetime", "(", "time_unit", "=", "'", dtype.time_unit, "'", ",", " ",
                "time_zone", "=", "'", dtype.time_zone[1], "'", ")">>
         ELSE <<dtype.cls, "(", "time_unit", "=", "'", dtype.time_unit, "'", ")">>
    ELSE <<dtype.cls>>

schema_to_dict(schema) == [col \in DOMAIN schema |-> dtype_to_str(schema[col])]

\* str.split(sep) and str.strip(chars) on token sequences
Has(str, ch) == \E i \in DOMAIN str : str[i] = ch

Find(str, ch) == CHOOSE i \in DOMAIN str : str[i] = ch /\ \A j \in 1..(i - 1) : str[j] # ch

RECURSIVE Split(_, _)
Split(str, sep) ==
    IF ~Has(str, sep) THEN <<str>>
    ELSE <<SubSeq(str, 1, Find(str, sep) - 1)>>
         \o Split(SubSeq(str, Find(str, sep) + 1, Len(str)), sep)

RECURSIVE Strip(_, _)
Strip(str, chars) ==
    IF str # << >> /\ Head(str) \in chars THEN Strip(Tail(str), chars)
    ELSE IF str # << >> /\ str[Len(str)] \in chars
    THEN Strip(SubSeq(str, 1, Len(str) - 1), chars)
    ELSE str

\* re.match(r"(\w+)\((.+)\)", type_str): a word, "(", one character or more,
\* and the last ")" of the string; params_str is what lies between
Matches(type_str) ==
    /\ Len(type_str) >= 4
    /\ type_str[1] \notin Punctuation
    /\ type_str[2] = "("
    /\ \E i \in 4..Len(type_str) : type_str[i] = ")"

ParamsStr(type_str) ==
    LET last == CHOOSE i \in 4..Len(type_str) :
                    type_str[i] = ")" /\ \A j \in (i + 1)..Len(type_str) : type_str[j] # ")"
    IN SubSeq(type_str, 3, last - 1)

\* the loop over params_str.split(','): key -> value of the parts with "="
ParamKey(param) == Strip(SubSeq(param, 1, Find(param, "=") - 1), {" "})

ParamValue(param) ==
    Strip(Strip(SubSeq(param, Find(param, "=") + 1, Len(param)), {" "}), {"'"})

Params(params_str) ==
    LET parts == Split(params_str, ",")
        with == {i \in DOMAIN parts : Has(Strip(parts[i], {" "}), "=")}
        last(key) == CHOOSE i \in with :
                        /\ ParamKey(Strip(parts[i], {" "})) = key
                        /\ \A j \in with : ParamKey(Strip(parts[j], {" "})) = key => j <= i
    IN [key \in {ParamKey(Strip(parts[i], {" "})) : i \in with} |->
           ParamValue(Strip(parts[last(key)], {" "}))]

\* the names getattr(pl, ...) finds a dtype for
PolarsNames ==
    {"Int8", "Int16", "Int32", "Int64", "UInt8", "UInt16", "UInt32", "UInt64",
     "Float32", "Float64", "Null", "Boolean", "Utf8", "Categorical", "Date", "Time",
     "Datetime", "Duration"}

\* what a failed getattr(pl, type_str) or pl.Datetime(**params) leaves in
\* place of a dtype: the call raises
NoDtype == [cls |-> "raise"]

\* dict_to_schema.str_to_dtype: only Datetime is made from its parameters;
\* every other string goes to getattr(pl, type_str) as a whole
str_to_dtype(type_str) ==
    IF Matches(type_str) /\ type_str[1] = "Datetime"
    THEN LET params == Params(ParamsStr(type_str))
         IN IF DOMAIN params \subseteq {<<"time_unit">>, <<"time_zone">>}
               /\ \A key \in DOMAIN params : Len(params[key]) = 1
            THEN Datetime(IF <<"time_unit">> \in DOMAIN params
                          THEN params[<<"time_unit">>][1] ELSE "us",
                          IF <<"time_zone">> \in DOMAIN params
                          THEN Some(params[<<"time_zone">>][1]) ELSE None)
            ELSE NoDtype
    ELSE IF Len(type_str) = 1 /\ type_str[1] \in PolarsNames
    THEN [cls |-> type_str[1]]
    ELSE NoDtype

dict_to_schema(schema_dict) ==
    [col \in DOMAIN schema_dict |-> str_to_dtype(schema_dict[col])]

\* dict_to_schema raises: one of the strings gives no dtype
dict_to_schema_raises(schema_dict) ==
    \E col \in DOMAIN schema_dict : str_to_dtype(schema_dict[col]) = NoDtype

\* read_subject_schema: {} when quiver_schema.json is absent
read_subject_schema(doc) == IF doc = None THEN EmptyDict ELSE dict_to_schema(doc[1])

read_subject_schema_raises(doc) == doc # None /\ dict_to_schema_raises(doc[1])

\* write_subject_schema: the document stored as quiver_schema.json
write_subject_schema(schema) == Some(schema_to_dict(schema))

\* get_most_permissive_type of suggest_subject_schema. Two dtypes are equal
\* when class and parameters are; a Datetime dtype of any unit and zone equals
\* the class pl.Datetime, so it is `in datetime_types`, and get_precision
\* answers 3 for it at its first test.
numeric_types ==
    <<Int8, Int16, Int32, Int64, UInt8, UInt16, UInt32, UInt64, Float32, Float64>>

index(seq, x) == CHOOSE i \in DOMAIN seq : seq[i] = x

in_numeric_types(t) == \E i \in DOMAIN numeric_types : numeric_types[i] = t

in_datetime_types(t) == t.cls = "Datetime"

get_precision(t) == 3

\* a rule for numeric pairs that always takes the later type of the list
numeric_pair_later(type1, type2) ==
    LET idx1 == index(numeric_types, type1)
        idx2 == index(numeric_types, type2)
    IN numeric_types[IF idx1 >= idx2 THEN idx1 ELSE idx2]

\* the branch `type1 in numeric_types and type2 in numeric_types`
numeric_pair(type1, type2) ==
    LET is_signed1 == type1 \in {Int8, Int16, Int32, Int64}
        is_signed2 == type2 \in {Int8, Int16, Int32, Int64}
        idx1 == index(numeric_types, type1)
        idx2 == index(numeric_types, type2)
    IN IF is_signed1 # is_signed2 THEN Float64
       ELSE numeric_types[IF idx1 >= idx2 THEN idx1 ELSE idx2]

get_most_permissive_type(type1, type2) ==
    IF type1 = NullType THEN type2
    ELSE IF type2 = NullType THEN type1
    ELSE IF type1 = type2 THEN type1
    ELSE IF type1 = Boolean \/ type2 = Boolean THEN Utf8
    ELSE IF in_datetime_types(type1) \/ in_datetime_types(type2)
    THEN IF in_datetime_types(type1) /\ in_datetime_types(type2)
         THEN IF get_precision(type1) >= get_precision(type2) THEN type1 ELSE type2
         ELSE Utf8
    ELSE IF type1 = Date \/ type2 = Date THEN Utf8
    ELSE IF type1 = Time \/ type2 = Time THEN Utf8
    ELSE IF type1 \in {Categorical, Utf8} \/ type2 \in {Categorical, Utf8} THEN Utf8
    ELSE IF in_numeric_types(type1) /\ in_numeric_types(type2)
    THEN numeric_pair(type1, type2)
    ELSE Utf8

\* the loop over one further file: a new column is added as it is, a known
\* one gets the most permissive type of the pair
MergeSchema(suggested_schema, file_schema) ==
    [col \in DOMAIN suggested_schema \cup DOMAIN file_schema |->
        IF col \notin DOMAIN suggested_schema THEN file_schema[col]
        ELSE IF col \notin DOMAIN file_schema THEN suggested_schema[col]
        ELSE get_most_permissive_type(suggested_schema[col], file_schema[col])]

RECURSIVE SuggestLoop(_, _)
SuggestLoop(suggested_schema, schemas) ==
    IF schemas = << >> THEN suggested_schema
    ELSE SuggestLoop(MergeSchema(suggested_schema, Head(schemas)), Tail(schemas))

Min(a, b) == IF a <= b THEN a ELSE b

Max(a, b) == IF a >= b THEN a ELSE b

\* a sample size rounded up
sample_size_ceil(n, num, den, max_files) ==
    Min(Min((n * num + den - 1) \div den, max_files), n)

\* min(max(1, int(len(files) * sample_fraction)), max_files, len(files)) for
\* the fraction num/den; int() truncates
sample_size(n, num, den, max_files) ==
    Min(Min(Max(1, (n * num) \div den), max_files), n)

----------------------------------------------------------------------------
(* Subject                                                                  *)

Handles == {1, 2}

\* the directory <subject>/_snapshots
SnapshotsDir == <<"_", "s", "n", "a", "p", "s", "h", "o", "t", "s">>

\* a path_exists that never finds the directory
path_exists_never(name) == FALSE

\* utils.path_exists of a directory <subject>/<name>
path_exists(name) == name \in DOMAIN fs

\* utils.subdirs of the subject: its directories but _snapshots
subdirs == DOMAIN fs \ {SnapshotsDir}

\* list_items / list_snapshots: the sub-directories on disk
list_items == subdirs

list_snapshots == DOMAIN snaps

\* Subject.__init__ run on the directory tree (items, snaps, meta, schema)
Subject(itemsOnDisk, snapsOnDisk, meta, schemaDoc) ==
    [items |-> itemsOnDisk,
     snapshots |-> snapsOnDisk,
     metadata |-> read_metadata(meta),
     schema |-> read_subject_schema(schemaDoc),
     partition_on |-> Get(read_metadata(meta), "partition_on"),
     sort_on |-> Get(read_metadata(meta), "sort_on")]

\* the record of a call: what was asked and how it ended
NoCall ==
    [op |-> "init", h |-> 0, item |-> << >>, status |-> "ok", df |-> None,
     overwrite |-> FALSE, schema |-> EmptyDict, sort |-> None,
     missing |-> << >>, name |-> << >>, confirm |-> FALSE, out |-> None,
     ret |-> TRUE, root |-> << >>, listing |-> << >>, sampled |-> << >>,
     fraction |-> <<1, 1>>, max_files |-> 0, saved |-> FALSE,
     columns |-> None, filters |-> None, pre_sort |-> FALSE,
     metadata |-> EmptyDict, metadata_after |-> EmptyDict,
     warned |-> FALSE, size |-> None, w |-> 0, rewritten |-> 0, sort_on |-> None]

\* a call that raises: nothing but the outcome changes
Raise(call, status) ==
    /\ res' = [call EXCEPT !.status = status]
    /\ UNCHANGED <<PARTITION_SIZE, writers, fs, snaps, subjMeta, subjSchema, handles, now>>

\* config.DEFAULT_PARTITION_SIZE (500e+6), in bytes
DEFAULT_PARTITION_SIZE == 500000000

\* utils.set_partition_size(size): None stands for the default
set_partition_size(size) ==
    /\ PARTITION_SIZE' = IF size = None THEN DEFAULT_PARTITION_SIZE ELSE size[1]
    /\ res' = [NoCall EXCEPT !.op = "set_partition_size", !.size = size,
                             !.out = Some(PARTITION_SIZE')]
    /\ UNCHANGED <<fs, snaps, subjMeta, subjSchema, handles, now, writers>>

\* DataFrame.estimated_size() in bytes of a table whose columns are 64 bit
\* wide and hold no null
estimated_size(rows, schema) == 8 * Len(rows) * Cardinality(DOMAIN schema)

\* no append is in progress
NoWriters == EmptyDict

\* a sort key that is the subject's, whatever the call gives
EffectiveSort_declared(self, sort_on) == self.sort_on

\* the column write and append sort by: the argument, else the subject's
EffectiveSort(self, sort_on) == IF sort_on # None THEN sort_on ELSE self.sort_on

\* the schema write enforces: the argument, else the subject's; a falsy one
\* ({} or none) enforces nothing
EffectiveSchema(self, schema) ==
    IF schema = None /\ self.schema # EmptyDict THEN self.schema
    ELSE IF schema = None THEN EmptyDict ELSE schema[1]

\* a write that stores one file holding the first row of the table only
WrittenFiles_head(partition_on, df) ==
    (<<ParquetFile>> :> Frame(df.schema, IF df.rows = << >> THEN << >> ELSE <<df.rows[1]>>))

\* the files df.write_parquet puts into the item directory
WrittenFiles(partition_on, df) ==
    IF partition_on # None
    THEN LET cols == partition_on[1].val
             kts == KeyTuples(df.rows, cols)
         IN [p \in {HiveDir(cols, kt) \o <<ParquetFile>> : kt \in kts} |->
                LET kt == CHOOSE x \in kts : HiveDir(cols, x) \o <<ParquetFile>> = p
                IN Frame(df.schema, RowsOfTuple(df.rows, cols, kt))]
    ELSE (<<ParquetFile>> :> df)

WrittenDirs(partition_on, df) ==
    IF partition_on # None
    THEN {HiveDir(partition_on[1].val, kt) : kt \in KeyTuples(df.rows, partition_on[1].val)}
    ELSE {}

\* a write that leaves an existing item directory in place
PreparedDir_keep(item, overwrite) == IF path_exists(item) THEN fs[item] ELSE EmptyDir

\* the item directory write_parquet finds: cleared by rmtree when an existing
\* item is overwritten, made by mkdir(exist_ok=True) otherwise
PreparedDir(item, overwrite) ==
    IF overwrite /\ path_exists(item) THEN EmptyDir
    ELSE IF path_exists(item) THEN fs[item] ELSE EmptyDir

\* Subject.write. rmtree of the item path takes the snapshots along when the
\* path is <subject>/_snapshots (the subject has no partition_on then)
write(h, item, data_obj, metadata, sort_on, overwrite, schema) ==
    LET self == handles[h]
        exists == path_exists(item)
        eff == EffectiveSchema(self, schema)
        df1 == IF eff # EmptyDict THEN EnforceSchema(data_obj, eff, DOMAIN eff) ELSE data_obj
        key == EffectiveSort(self, sort_on)
        call == [NoCall EXCEPT !.op = "write", !.h = h, !.item = item,
                               !.df = Some(data_obj), !.overwrite = overwrite,
                               !.schema = eff, !.sort = key, !.sort_on = sort_on,
                               !.metadata = IF metadata = None THEN EmptyDict
                                                               ELSE metadata[1]]
        missing_cols == IF self.partition_on = None THEN << >>
                        ELSE SelectSeq(self.partition_on[1].val,
                                       LAMBDA col : col \notin columns(df1))
    IN
    /\ now < MaxClock
    /\ IF exists /\ ~overwrite
       THEN Raise([NoCall EXCEPT !.op = "write", !.h = h, !.item = item,
                                 !.overwrite = overwrite], "AlreadyExists")
       ELSE IF ~IsTable(data_obj) /\ (eff # EmptyDict \/ key # None)
       THEN Raise(call, "AttributeError")
       ELSE IF key # None /\ key[1] \notin columns(df1)
       THEN Raise(call, "ColumnNotFound")
       ELSE IF self.partition_on # None /\ self.partition_on[1].tag = "str"
       THEN Raise(call, "PartitionOnNotList")
       ELSE IF ~IsTable(data_obj) /\ self.partition_on # None
       THEN Raise(call, "AttributeError")
       ELSE IF missing_cols # << >>
       THEN Raise([call EXCEPT !.missing = missing_cols], "PartitionColumnMissing")
       ELSE LET base == PreparedDir(item, overwrite)
                kept == IF item = SnapshotsDir THEN EmptyDict ELSE snaps
            IN IF ~IsTable(data_obj)
               THEN \* rmtree and mkdir are done when write_parquet raises
                    /\ fs' = Merge(fs, item :> base)
                    /\ snaps' = kept
                    /\ res' = [call EXCEPT !.status = "AttributeError"]
                    /\ UNCHANGED <<PARTITION_SIZE, writers, subjMeta, subjSchema, handles, now>>
               ELSE \E rows \in (IF key # None THEN SortOutcomes(df1.rows, key[1])
                                               ELSE {df1.rows}) :
                    LET df == Frame(df1.schema, rows)
                        files == Merge(base.files, WrittenFiles(self.partition_on, df))
                        dirs == base.dirs \cup WrittenDirs(self.partition_on, df)
                        md == IF metadata = None THEN read_metadata(base.meta)
                                                 ELSE metadata[1]
                        doc == write_metadata(base.meta, md, FALSE, now)
                    IN /\ fs' = Merge(fs, item :> ItemDir(dirs, files, doc))
                       /\ handles' = [handles EXCEPT ![h].items = @ \cup {item}]
                       /\ now' = now + 1
                       /\ snaps' = kept
                       /\ res' = call
                       /\ UNCHANGED <<PARTITION_SIZE, writers, subjMeta, subjSchema>>

\* one key group of a key-partitioned append: mkdir, read, concat, sort,
\* rewrite. The set of outcomes (the sort leaves the order of ties open).
AppendGroup(dir, cols, kt, data_obj, key) ==
    LET pdir == PartitionDir(cols, kt)
        path == pdir \o <<ParquetFile>>
        made == [dir EXCEPT !.dirs = @ \cup {pdir}]
        partition_data == RowsOfTuple(data_obj.rows, cols, kt)
        present == path \in DOMAIN dir.files
        combined == IF present THEN dir.files[path].rows \o partition_data
                               ELSE partition_data
    IN IF present /\ dir.files[path].schema # data_obj.schema
       THEN {[dir |-> made, status |-> "SchemaMismatch"]}
       ELSE IF key # None /\ key[1] \notin columns(data_obj)
       THEN {[dir |-> made, status |-> "ColumnNotFound"]}
       ELSE IF Len(combined) > MaxFileRows
       THEN {}
       ELSE {[dir |-> [made EXCEPT !.files = Merge(@, path :> Frame(data_obj.schema, rows))],
              status |-> "ok"] :
             rows \in (IF key # None THEN SortOutcomes(combined, key[1]) ELSE {combined})}

RECURSIVE AppendGroups(_, _, _, _, _)

\* a loop that puts the directory back as it was when a group raises
AppendGroups_rollback(dir, cols, order, data_obj, key) ==
    IF order = << >> THEN {[dir |-> dir, status |-> "ok", n |-> 0]}
    ELSE UNION {IF o.status = "ok"
                THEN {[r EXCEPT !.n = @ + 1,
                                !.dir = IF r.status = "ok" THEN @ ELSE dir] :
                        r \in AppendGroups(o.dir, cols, Tail(order), data_obj, key)}
                ELSE {[dir |-> dir, status |-> o.status, n |-> 0]} :
                o \in AppendGroup(dir, cols, Head(order), data_obj, key)}

\* the loop over data_obj.group_by(partition_on), in the order `order`; it
\* stops at the first group that raises. n counts the groups rewritten
AppendGroups(dir, cols, order, data_obj, key) ==
    IF order = << >> THEN {[dir |-> dir, status |-> "ok", n |-> 0]}
    ELSE UNION {IF o.status = "ok"
                THEN {[r EXCEPT !.n = @ + 1] :
                        r \in AppendGroups(o.dir, cols, Tail(order), data_obj, key)}
                ELSE {[dir |-> o.dir, status |-> o.status, n |-> 0]} :
                o \in AppendGroup(dir, cols, Head(order), data_obj, key)}

\* the orders in which group_by may yield the groups
GroupOrders(kts) ==
    {o \in [1..Cardinality(kts) -> kts] : \A i, j \in DOMAIN o : i # j => o[i] # o[j]}

\* Subject.append to an item (a name other than _snapshots)
append(h, item, data_obj, sort_on) ==
    LET self == handles[h]
        exists == path_exists(item)
        key == EffectiveSort(self, sort_on)
        call == [NoCall EXCEPT !.op = "append", !.h = h, !.item = item,
                               !.df = Some(data_obj), !.sort = key, !.sort_on = sort_on]
    IN
    IF ~IsTable(data_obj)
    THEN Raise(call, "InvalidInput")
    ELSE IF self.partition_on # None
    THEN LET cols == self.partition_on[1].val
             missing_cols == SelectSeq(cols, LAMBDA col : col \notin columns(data_obj))
             base == IF exists THEN fs[item] ELSE EmptyDir
             kts == KeyTuples(data_obj.rows, cols)
         IN IF missing_cols # << >>
            THEN Raise([call EXCEPT !.missing = missing_cols], "PartitionColumnMissing")
            ELSE \E order \in GroupOrders(kts) :
                 \E o \in AppendGroups(base, cols, order, data_obj, key) :
                    /\ fs' = IF kts = {} THEN fs ELSE Merge(fs, item :> o.dir)
                    /\ res' = [call EXCEPT !.status = o.status, !.rewritten = o.n]
                    /\ UNCHANGED <<PARTITION_SIZE, writers, snaps, subjMeta, subjSchema, handles, now>>
    ELSE LET i_files == IF exists THEN DOMAIN fs[item].files ELSE {}
             a_path == IF Cardinality(i_files) > 1 THEN <<AppendedFile>>
                       ELSE CHOOSE p \in i_files : TRUE
             present == a_path \in i_files
             combined == IF present THEN fs[item].files[a_path].rows \o data_obj.rows
                                    ELSE data_obj.rows
         IN IF i_files = {}
            THEN Raise([NoCall EXCEPT !.op = "append", !.h = h, !.item = item],
                       "IndexError")
            ELSE IF present /\ fs[item].files[a_path].schema # data_obj.schema
            THEN Raise(call, "SchemaMismatch")
            ELSE IF key # None /\ key[1] \notin columns(data_obj)
            THEN Raise(call, "ColumnNotFound")
            ELSE /\ Len(combined) <= MaxFileRows
                 /\ \E rows \in (IF key # None THEN SortOutcomes(combined, key[1])
                                               ELSE {combined}) :
                    /\ fs' = [fs EXCEPT ![item].files =
                                 Merge(@, a_path :> Frame(data_obj.schema, rows))]
                    /\ res' = [call EXCEPT !.warned =
                                 estimated_size(rows, data_obj.schema) > DEFAULT_PARTITION_SIZE]
                    /\ UNCHANGED <<PARTITION_SIZE, writers, snaps, subjMeta, subjSchema, handles, now>>

\* Subject.append of a subject with partition_on, step by step, as two
\* processes run it side by side: the call up to the loop, then for each key
\* group the read (mkdir, exists, read_parquet, concat) and the rewrite (sort,
\* write_parquet). A writer keeps its local variables between the steps.
Writers == {1, 2}

\* the local variables of a call that has reached the loop over the groups;
\* before (the item's directory as the call found it) and started (the rank
\* of the call among those begun) are kept for the comparison with a run of
\* the calls one after the other
Writer(call, todo) ==
    [pc |-> "read", call |-> call, todo |-> todo,
     existing_data |-> None, combined_data |-> << >>,
     before |-> IF path_exists(call.item) THEN fs[call.item] ELSE EmptyDir,
     started |-> Cardinality(DOMAIN writers) + 1]

\* the end of a call: its outcome is recorded, its locals stay for inspection
Return(w, status, rewritten) ==
    /\ writers' = [writers EXCEPT ![w].pc = "done", ![w].todo = << >>,
                                  ![w].call.rewritten = rewritten]
    /\ res' = [writers[w].call EXCEPT !.status = status, !.rewritten = rewritten]

\* the call up to `for group in data_obj.group_by(self.partition_on)`
AppendStart(w, h, item, data_obj, sort_on) ==
    LET self == handles[h]
        key == EffectiveSort(self, sort_on)
        call == [NoCall EXCEPT !.op = "append", !.h = h, !.item = item,
                               !.df = Some(data_obj), !.sort = key, !.sort_on = sort_on,
                               !.w = w]
        cols == self.partition_on[1].val
        missing_cols == SelectSeq(cols, LAMBDA col : col \notin columns(data_obj))
    IN /\ w \notin DOMAIN writers
       /\ self.partition_on # None
       /\ IF ~IsTable(data_obj)
          THEN Raise(call, "InvalidInput")
          ELSE IF missing_cols # << >>
          THEN Raise([call EXCEPT !.missing = missing_cols], "PartitionColumnMissing")
          ELSE \E order \in GroupOrders(KeyTuples(data_obj.rows, cols)) :
                  /\ writers' = (w :> Writer(call, order)) @@ writers
                  /\ res' = IF order = << >> THEN call ELSE res
                  /\ UNCHANGED <<fs, snaps, subjMeta, subjSchema, handles, now,
                                 PARTITION_SIZE>>

\* the first half of the loop body for the next group: the key directory is
\* made, the key's file is read when it exists and the group's rows are put
\* behind its rows
AppendRead(w) ==
    LET wr == writers[w]
        item == wr.call.item
        data_obj == wr.call.df[1]
        cols == handles[wr.call.h].partition_on[1].val
        kt == Head(wr.todo)
        pdir == PartitionDir(cols, kt)
        path == pdir \o <<ParquetFile>>
        dir == IF path_exists(item) THEN fs[item] ELSE EmptyDir
        present == path \in DOMAIN dir.files
        partition_data == RowsOfTuple(data_obj.rows, cols, kt)
    IN /\ w \in DOMAIN writers
       /\ wr.pc = "read"
       /\ wr.todo # << >>
       /\ fs' = Merge(fs, item :> [dir EXCEPT !.dirs = @ \cup {pdir}])
       /\ UNCHANGED <<snaps, subjMeta, subjSchema, handles, now, PARTITION_SIZE>>
       /\ IF present /\ dir.files[path].schema # data_obj.schema
          THEN Return(w, "SchemaMismatch", wr.call.rewritten)
          ELSE /\ writers' =
                    [writers EXCEPT
                        ![w].pc = "write",
                        ![w].existing_data =
                            IF present THEN Some(dir.files[path]) ELSE None,
                        ![w].combined_data =
                            IF present THEN dir.files[path].rows \o partition_data
                                       ELSE partition_data]
               /\ res' = res

\* a rewrite with what the key's file holds at the time of the rewrite
CombinedData_reread(w, path) ==
    LET wr == writers[w]
        cols == handles[wr.call.h].partition_on[1].val
        files == fs[wr.call.item].files
    IN (IF path \in DOMAIN files THEN files[path].rows ELSE << >>)
           \o RowsOfTuple(wr.call.df[1].rows, cols, Head(wr.todo))

\* combined_data of the rewrite: the table built when the file was read
CombinedData(w, path) == writers[w].combined_data

\* a rewrite that puts the item back as the call found it, with the key's
\* file replaced
WrittenDir_whole(w, path, table) ==
    [writers[w].before EXCEPT !.dirs = fs[writers[w].call.item].dirs,
                              !.files = Merge(@, path :> table)]

\* the item's directory after combined_data.write_parquet(parquet_path): the
\* file at parquet_path is replaced, every other file stays
WrittenDir(w, path, table) ==
    [fs[writers[w].call.item] EXCEPT !.files = Merge(@, path :> table)]

\* the second half of the loop body: sort and write_parquet; the loop goes
\* on with the next group or the call returns
AppendWrite(w) ==
    LET wr == writers[w]
        item == wr.call.item
        data_obj == wr.call.df[1]
        cols == handles[wr.call.h].partition_on[1].val
        key == wr.call.sort
        kt == Head(wr.todo)
        pdir == PartitionDir(cols, kt)
        path == pdir \o <<ParquetFile>>
        combined == CombinedData(w, path)
    IN /\ w \in DOMAIN writers
       /\ wr.pc = "write"
       /\ UNCHANGED <<snaps, subjMeta, subjSchema, handles, now, PARTITION_SIZE>>
       /\ IF key # None /\ key[1] \notin columns(data_obj)
          THEN Return(w, "ColumnNotFound", wr.call.rewritten) /\ fs' = fs
          ELSE IF ~path_exists(item) \/ pdir \notin fs[item].dirs
          THEN Return(w, "FileNotFound", wr.call.rewritten) /\ fs' = fs
          ELSE /\ Len(combined) <= MaxFileRows
               /\ \E rows \in (IF key # None THEN SortOutcomes(combined, key[1])
                                             ELSE {combined}) :
                     fs' = [fs EXCEPT ![item] =
                               WrittenDir(w, path, Frame(data_obj.schema, rows))]
               /\ IF Tail(wr.todo) = << >>
                  THEN Return(w, "ok", wr.call.rewritten + 1)
                  ELSE /\ writers' = [writers EXCEPT ![w].pc = "read",
                                                     ![w].todo = Tail(@),
                                                     ![w].call.rewritten = @ + 1]
                       /\ res' = res

\* Subject.delete_item of an item (a name other than _snapshots); response is
\* what the user types at the prompt
delete_item(h, item, confirm, response) ==
    LET call == [NoCall EXCEPT !.op = "delete_item", !.h = h, !.item = item,
                               !.confirm = confirm]
    IN IF confirm /\ response # "y"
       THEN Raise([call EXCEPT !.ret = FALSE], "ok")
       ELSE IF ~path_exists(item)
       THEN Raise(call, "FileNotFound")
       ELSE /\ fs' = [i \in DOMAIN fs \ {item} |-> fs[i]]
            /\ handles' = [handles EXCEPT ![h].items = DOMAIN fs' \ {SnapshotsDir}]
            /\ res' = call
            /\ UNCHANGED <<PARTITION_SIZE, writers, snaps, subjMeta, subjSchema, now>>

\* the characters create_snapshot keeps: e.isalnum() or e in [".", "_"]
Alnum == {"a", "b", "c", "0", "1", "2", "3", "4", "5", "6", "7", "8", "9"}

\* a create_snapshot that keeps the name as given
Sanitize_raw(snapshot) == snapshot

Sanitize(snapshot) == SelectSeq(snapshot, LAMBDA e : e \in Alnum \cup {".", "_"})

\* str(int(time.time() * 1000000)) at clock reading t
Digits == <<"0", "1", "2", "3", "4", "5", "6", "7", "8", "9">>

TimeName(t) == <<Digits[(t % 10) + 1]>>

\* a copy that takes an existing destination (copytree(dirs_exist_ok=True))
SnapshotPathExists_never(name) == FALSE

\* whether <subject>/_snapshots/<name> exists: pathlib drops an empty or "."
\* component, which leaves _snapshots itself, and ".." leads back to the
\* subject directory (the names here are not those of files in _snapshots)
SnapshotPathExists(name) ==
    \/ name \in {<< >>, <<".">>, <<".", ".">>} /\ path_exists(SnapshotsDir)
    \/ name \in DOMAIN snaps

\* what copytree(src, dst, ignore=ignore_patterns("_snapshots")) copies
SubjectTree ==
    [items |-> [i \in subdirs |-> fs[i]], meta |-> subjMeta, schema |-> subjSchema]

\* Subject.create_snapshot; the argument is None or the caller's name
create_snapshot(h, snapshot) ==
    LET named == snapshot # None /\ snapshot[1] # << >>
        name == IF named THEN Sanitize(snapshot[1]) ELSE TimeName(now)
        call == [NoCall EXCEPT !.op = "create_snapshot", !.h = h,
                               !.name = IF snapshot = None THEN << >> ELSE snapshot[1]]
    IN /\ named \/ now < MaxClock
       /\ IF SnapshotPathExists(name)
          THEN /\ res' = [call EXCEPT !.status = "FileExists"]
               /\ now' = IF named THEN now ELSE now + 1
               /\ UNCHANGED <<PARTITION_SIZE, writers, fs, snaps, subjMeta, subjSchema, handles>>
          ELSE /\ snaps' = Merge(snaps, name :> SubjectTree)
               /\ handles' = [handles EXCEPT ![h].snapshots = DOMAIN snaps']
               /\ now' = IF named THEN now ELSE now + 1
               /\ res' = call
               /\ UNCHANGED <<PARTITION_SIZE, writers, fs, subjMeta, subjSchema>>

\* Subject.delete_snapshot
delete_snapshot(h, snapshot, confirm, response) ==
    LET call == [NoCall EXCEPT !.op = "delete_snapshot", !.h = h, !.name = snapshot,
                               !.confirm = confirm]
    IN IF snapshot \notin handles[h].snapshots
       THEN Raise(call, "ok")
       ELSE IF confirm /\ response # "y"
       THEN Raise([call EXCEPT !.ret = FALSE], "ok")
       ELSE IF snapshot \notin DOMAIN snaps
       THEN Raise(call, "FileNotFound")
       ELSE /\ snaps' = [n \in DOMAIN snaps \ {snapshot} |-> snaps[n]]
            /\ handles' = [handles EXCEPT ![h].snapshots = DOMAIN snaps']
            /\ res' = call
            /\ UNCHANGED <<PARTITION_SIZE, writers, fs, subjMeta, subjSchema, now>>

\* Subject.delete_snapshots
delete_snapshots(h, confirm, response) ==
    LET call == [NoCall EXCEPT !.op = "delete_snapshots", !.h = h, !.confirm = confirm]
    IN IF handles[h].snapshots = {}
       THEN Raise(call, "ok")
       ELSE IF confirm /\ response # "y"
       THEN Raise([call EXCEPT !.ret = FALSE], "ok")
       ELSE \* rmtree and makedirs of <subject>/_snapshots
            /\ snaps' = EmptyDict
            /\ fs' = Merge(fs, SnapshotsDir :> EmptyDir)
            /\ handles' = [handles EXCEPT ![h].snapshots = {}]
            /\ res' = call
            /\ UNCHANGED <<PARTITION_SIZE, writers, subjMeta, subjSchema, now>>

\* Library.subject on an existing subject: a new Subject object, none when
\* __init__ raises on the schema document
open_subject(h) ==
    IF read_subject_schema_raises(subjSchema)
    THEN Raise([NoCall EXCEPT !.op = "open_subject", !.h = h], "AttributeError")
    ELSE /\ handles' = [handles EXCEPT ![h] = Subject(list_items, list_snapshots,
                                                       subjMeta, subjSchema)]
         /\ res' = [NoCall EXCEPT !.op = "open_subject", !.h = h]
         /\ UNCHANGED <<PARTITION_SIZE, writers, fs, snaps, subjMeta, subjSchema, now>>

\* Subject.save_subject_metadata: write_metadata on the subject directory,
\* then self.metadata = metadata, the caller's dictionary
save_subject_metadata(h, metadata, overwrite) ==
    LET after == write_metadata_arg(metadata, overwrite, now)
    IN /\ now < MaxClock
       /\ subjMeta' = write_metadata(subjMeta, metadata, overwrite, now)
       /\ handles' = [handles EXCEPT ![h].metadata = after]
       /\ now' = now + 1
       /\ res' = [NoCall EXCEPT !.op = "save_subject_metadata", !.h = h,
                                 !.overwrite = overwrite, !.metadata = metadata,
                                 !.metadata_after = after]
       /\ UNCHANGED <<PARTITION_SIZE, writers, fs, snaps, subjSchema>>

\* `self.schema is None`: the attribute holds the dict read_subject_schema or
\* set_schema gave it, {} when no schema is declared, and never None
schema_is_None(self) == FALSE

\* Subject.full_subject: the scan of <subject>/**/*.parquet under self.schema
full_subject(h) ==
    LET self == handles[h]
        call == [NoCall EXCEPT !.op = "full_subject", !.h = h]
    IN IF schema_is_None(self)
       THEN Raise(call, "ValueError")
       ELSE Raise([call EXCEPT !.schema = self.schema,
                               !.out = Some([kind |-> "LazyFrame", schema |-> self.schema])],
                  "ok")

\* Subject.set_schema(item, save); the answer to the prompt when save is set.
\* The first file of glob("*.parquet") is any file at the top of the item.
set_schema(h, item, save, response) ==
    LET call == [NoCall EXCEPT !.op = "set_schema", !.h = h, !.item = item,
                               !.confirm = save]
        top == IF path_exists(item) THEN {q \in DOMAIN fs[item].files : Len(q) = 1} ELSE {}
    IN IF top = {}
       THEN Raise(call, "IndexError")
       ELSE \E i_file \in top :
            LET schema == fs[item].files[i_file].schema
                saved == save /\ response = "y"
            IN /\ subjSchema' = IF saved THEN write_subject_schema(schema) ELSE subjSchema
               /\ handles' = [handles EXCEPT ![h].schema = schema]
               /\ res' = [call EXCEPT !.schema = schema, !.saved = saved]
               /\ UNCHANGED <<PARTITION_SIZE, writers, fs, snaps, subjMeta, now>>

----------------------------------------------------------------------------
(* utils.suggest_subject_schema on the subject directory                    *)

\* the files subject_path.rglob("**/*.parquet") finds: those of the items
\* and of _snapshots, and those of every snapshot's copy
SubjectFiles ==
    UNION {{[snap |-> None, item |-> i, path |-> p] : p \in DOMAIN fs[i].files} :
           i \in DOMAIN fs}
    \cup
    UNION {UNION {{[snap |-> Some(n), item |-> i, path |-> p] :
                     p \in DOMAIN snaps[n].items[i].files} :
                  i \in DOMAIN snaps[n].items} :
           n \in DOMAIN snaps}

\* pl.scan_parquet(file).schema
FileSchema(f) ==
    IF f.snap = None THEN fs[f.item].files[f.path].schema
    ELSE snaps[f.snap[1]].items[f.item].files[f.path].schema

\* a call that finds no file and raises
NoFiles_raise(call) == Raise(call, "ValueError")

\* `if not files: return {}`
NoFiles(call) == Raise([call EXCEPT !.out = Some(EmptyDict)], "ok")

\* suggest_subject_schema(subject_path, sample_fraction=num/den, max_files) on
\* the subject directory, which exists; the listing has any order
suggest_subject_schema(fraction, max_files) ==
    \E files \in GroupOrders(SubjectFiles) :
        LET call == [NoCall EXCEPT !.op = "suggest_subject_schema", !.listing = files,
                                   !.fraction = fraction, !.max_files = max_files]
            n == sample_size(Len(files), fraction[1], fraction[2], max_files)
            files_to_sample == SubSeq(files, 1, n)
            schemas == [i \in DOMAIN files_to_sample |-> FileSchema(files_to_sample[i])]
        IN IF files = << >>
           THEN NoFiles(call)
           ELSE IF files_to_sample = << >>
           THEN Raise(call, "ValueError")
           ELSE Raise([call EXCEPT !.sampled = files_to_sample,
                                   !.out = Some(SuggestLoop(Head(schemas), Tail(schemas)))],
                      "ok")

----------------------------------------------------------------------------
(* Item: opening an item and materialising it (to_polars)                   *)

\* the orders in which the scan may list the files, and the rows it yields
RECURSIVE ConcatRows(_, _)
ConcatRows(files, order) ==
    IF order = << >> THEN << >>
    ELSE files[Head(order)].rows \o ConcatRows(files, Tail(order))

\* a select that keeps every column
Project_all(df, cols) == df

\* data.select(columns)
Project(df, cols) ==
    Frame([c \in cols |-> df.schema[c]],
          [i \in DOMAIN df.rows |-> [c \in cols |-> df.rows[i][c]]])

\* data.filter(pl.col(col) == v) for filters = <<col, v>>
Filter(df, filters) ==
    Frame(df.schema, SelectSeq(df.rows, LAMBDA r : r[filters[1]] = filters[2]))

\* a validation that enforces every column of the schema, selected or not
validate_schema_all(df, schema, cols) ==
    IF schema = EmptyDict THEN df ELSE EnforceSchema(df, schema, DOMAIN schema)

\* Item._validate_schema
validate_schema(df, schema, cols) ==
    IF schema = EmptyDict THEN df
    ELSE LET columns_to_validate == IF cols # None THEN cols[1] ELSE DOMAIN schema
         IN EnforceSchema(df, schema, {c \in columns_to_validate : c \in DOMAIN schema})

\* Item.__init__: the directory the item's data is read from (None: the path
\* does not exist) and that path, relative to the subject
ItemRoot(item, snapshot) ==
    IF snapshot # None /\ snapshot[1] # << >>
    THEN <<SnapshotsDir, item, snapshot[1]>>
    ELSE <<item>>

ItemRootDir(item, snapshot) ==
    IF snapshot # None /\ snapshot[1] # << >>
    THEN IF item \in DOMAIN snaps /\ snapshot[1] \in DOMAIN snaps[item].items
         THEN Some(snaps[item].items[snapshot[1]])
         ELSE None
    ELSE IF path_exists(item) THEN Some(fs[item]) ELSE None

\* Item(item, library, subject, snapshot, filters, pre_sort, columns, sort_on)
\* followed by to_polars(), for an item name other than _snapshots
to_polars(item, snapshot, filters, pre_sort, cols, sort_on) ==
    LET dir == ItemRootDir(item, snapshot)
        key == IF sort_on = None THEN Get(read_metadata(subjMeta), "sort_on") ELSE sort_on
        call == [NoCall EXCEPT !.op = "to_polars", !.item = item,
                               !.name = IF snapshot = None THEN << >> ELSE snapshot[1],
                               !.root = ItemRoot(item, snapshot),
                               !.columns = cols, !.filters = filters,
                               !.pre_sort = pre_sort, !.sort = key]
        schema == read_subject_schema(subjSchema)
    IN IF dir = None
       THEN Raise(call, "NotFound")
       ELSE IF read_subject_schema_raises(subjSchema)
       THEN Raise(call, "AttributeError")
       ELSE LET files == dir[1].files
                paths == DOMAIN files
                any == CHOOSE q \in paths : TRUE
                selected == IF cols = None THEN DOMAIN files[any].schema ELSE cols[1]
            IN IF paths = {}
               THEN Raise(call, "NoFiles")
               ELSE IF \E q \in paths : files[q].schema # files[any].schema
               THEN Raise(call, "SchemaMismatch")
               ELSE IF ~(selected \subseteq DOMAIN files[any].schema)
               THEN Raise(call, "ColumnNotFound")
               ELSE IF pre_sort /\ key # None /\ key[1] \notin selected
               THEN Raise(call, "ColumnNotFound")
               ELSE IF filters # None /\ filters[1][1] \notin selected
               THEN Raise(call, "ColumnNotFound")
               ELSE \E order \in GroupOrders(paths) :
                    LET scanned == Project(Frame(files[any].schema, ConcatRows(files, order)),
                                           selected)
                    IN \E rows \in (IF pre_sort /\ key # None
                                    THEN SortOutcomes(scanned.rows, key[1])
                                    ELSE {scanned.rows}) :
                       LET sorted == Frame(scanned.schema, rows)
                           data == IF filters # None THEN Filter(sorted, filters[1])
                                                     ELSE sorted
                       IN Raise([call EXCEPT !.out = Some(validate_schema(data, schema, cols))],
                                "ok")

----------------------------------------------------------------------------
(* The subject as Library._create_subject leaves it, and the calls made.    *)

\* the tables of a schema with up to maxRows rows out of a set of rows
FramesOf(schema, rowset, maxRows) ==
    UNION {{Frame(schema, rows) : rows \in [1..n -> rowset]} : n \in 0..maxRows}

\* the tables over a choice of column sets and dtypes whose cells all hold 0:
\* every column of one table has the same dtype
Tables(colsets, dtypes, maxRows) ==
    UNION {FramesOf([c \in cs |-> ty], {[c \in cs |-> 0]}, maxRows) :
           <<cs, ty>> \in colsets \X dtypes}

\* quiver_schema.json as write_subject_schema stores it
SchemaDocs == {("k" :> <<"Int64">>) @@ ("t" :> <<"Float64">>)}

\* the subject right after its creation, with two Subject objects on it
InitWith(configs, schemaDocs) ==
    /\ fs = (SnapshotsDir :> EmptyDir)
    /\ snaps = EmptyDict
    /\ subjMeta \in {write_metadata(None, cfg, FALSE, 0) : cfg \in configs}
    /\ subjSchema \in schemaDocs
    /\ handles = [h \in Handles |-> Subject({}, {}, subjMeta, subjSchema)]
    /\ now = 0
    /\ res = NoCall
    /\ PARTITION_SIZE = DEFAULT_PARTITION_SIZE
    /\ writers = NoWriters

SortArgs == {None, Some("t")}

----------------------------------------------------------------------------------------------------------------------------------------
(* Spec: writes, appends and reads of one item of a subject without         *)
(* partition_on and without a schema, with and without a declared sort_on.  *)

\* the rows of the input tables: two of one key, two that tie on t
DataRows == {[k |-> 0, t |-> 0], [k |-> 0, t |-> 1], [k |-> 1, t |-> 0]}

DataInputs == FramesOf([c \in {"k", "t"} |-> Int64], DataRows, MaxRows)

DataItems == {<<"a">>}

Init == InitWith({EmptyDict, "sort_on" :> "t"}, {None})

Next ==
    \/ \E item \in DataItems, df \in DataInputs, ov \in BOOLEAN :
            write(1, item, df, None, None, ov, None)
    \/ \E item \in DataItems, df \in DataInputs, so \in SortArgs :
            append(1, item, df, so)
    \/ \E item \in DataItems, pre_sort \in BOOLEAN :
            to_polars(item, None, None, pre_sort, None, None)

Spec == Init /\ [][Next]_vars

----------------------------------------------------------------------------
(* SpecKeys: writes and appends of one item of a subject that declares      *)
(* partition_on = ["k"], with and without a declared sort_on.               *)

InitKeys ==
    InitWith({Merge("partition_on" :> PyList(<<"k">>), s) :
                 s \in {EmptyDict, "sort_on" :> "t"}}, {None})

NextKeys ==
    \/ \E item \in DataItems, df \in DataInputs, ov \in BOOLEAN :
            write(1, item, df, None, None, ov, None)
    \/ \E item \in DataItems, df \in DataInputs :
            append(1, item, df, None)

SpecKeys == InitKeys /\ [][NextKeys]_vars

----------------
(* SpecSchema: writes and appends under schemas, over tables that lack      *)
(* schema columns, carry further columns or have other dtypes.              *)

InitSchema ==
    InitWith({EmptyDict, "partition_on" :> PyList(<<"k">>)},
             {None} \cup {Some(d) : d \in SchemaDocs})

SchemaInputs == Tables({{"k", "t"}, {"t"}, {"k", "t", "x"}}, {Int64, Float64}, 1)

SchemaArgs == {None, Some(("t" :> Int64) @@ ("x" :> Float64))}

MetaArgs == {None, Some("src" :> 0)}

NextSchema ==
    \/ \E item \in DataItems, df \in SchemaInputs, md \in MetaArgs, ov \in BOOLEAN,
          sc \in SchemaArgs :
            write(1, item, df, md, None, ov, sc)
    \/ \E item \in DataItems, df \in SchemaInputs :
            append(1, item, df, None)

SpecSchema == InitSchema /\ [][NextSchema]_vars

----------------------------------------------------------------------------
(* SpecSnap: snapshots of a subject with up to two items, taken, read and   *)
(* deleted through one Subject object, among writes (also to the name       *)
(* _snapshots), appends and deletions of items.                             *)

InitSnap == InitWith({EmptyDict}, {None})

SnapInputs == {Frame("t" :> Int64, <<[t |-> 0]>>)}

\* names a caller passes to create_snapshot
RawNames == {<<"a">>, <<"b">>, <<"a", "-">>, <<"-">>, <<".">>, <<".", ".">>}

\* names of snapshot directories that can come to exist
SnapNames == {<<"a">>, <<"b">>}

Prompt == {<<FALSE, "y">>, <<TRUE, "y">>, <<TRUE, "n">>}

NextSnap ==
    \/ \E item \in ItemNames \cup {SnapshotsDir}, df \in SnapInputs, ov \in BOOLEAN :
            write(1, item, df, None, None, ov, None)
    \/ \E df \in SnapInputs :
            append(1, <<"a">>, df, None)
    \/ \E item \in ItemNames, c \in Prompt :
            delete_item(1, item, c[1], c[2])
    \/ \E n \in RawNames :
            create_snapshot(1, Some(n))
    \/ \E n \in SnapNames, c \in Prompt :
            delete_snapshot(1, n, c[1], c[2])
    \/ \E c \in Prompt :
            delete_snapshots(1, c[1], c[2])
    \/ \E item \in ItemNames, n \in SnapNames :
            to_polars(item, Some(n), None, FALSE, None, None)

SpecSnap == InitSnap /\ [][NextSnap]_vars

----------------------------------------------------------------------------
(* SpecHandles: two Subject objects on one subject; either creates and      *)
(* deletes snapshots, named or not, and either is opened again at any time. *)

NextHandles ==
    \/ \E df \in SnapInputs :
            write(1, <<"a">>, df, None, None, FALSE, None)
    \/ \E h \in Handles, n \in RawNames :
            create_snapshot(h, Some(n))
    \/ \E h \in Handles :
            create_snapshot(h, None)
    \/ \E h \in Handles, n \in SnapNames \cup {TimeName(0)}, c \in Prompt :
            delete_snapshot(h, n, c[1], c[2])
    \/ \E h \in Handles, c \in Prompt :
            delete_snapshots(h, c[1], c[2])
    \/ \E h \in Handles :
            open_subject(h)

SpecHandles == InitSnap /\ [][NextHandles]_vars

----------------------------------------------------------------------------
(* SpecSuggest: suggest_subject_schema over a subject whose two items hold  *)
(* one file each, of any dtype.                                             *)

SuggestTypes ==
    {NullType, Boolean, Int8, Int16, Int32, Int64, UInt8, UInt16, UInt32, UInt64,
     Float32, Float64, Utf8, Categorical, Date, Time,
     Datetime("ms", None), Datetime("ns", None), Datetime("us", None),
     Datetime("us", Some("UTC"))}

\* a table without rows of two columns, v and w
TwoColumns == Frame(("v" :> Int64) @@ ("w" :> Int32), << >>)

\* tables without rows: of one column v of any dtype, and the one of two
SuggestInputs == {Frame("v" :> ty, << >>) : ty \in SuggestTypes} \cup {TwoColumns}

\* sample_fraction as <<numerator, denominator>>, exact in binary floating point
SampleFractions == {<<1, 4>>, <<1, 2>>, <<3, 4>>, <<1, 1>>}

MaxFilesArgs == {1, 2, 3}

NextSuggest ==
    \/ \E item \in ItemNames, df \in SuggestInputs :
            write(1, item, df, None, None, FALSE, None)
    \/ \E fraction \in SampleFractions, max_files \in MaxFilesArgs :
            suggest_subject_schema(fraction, max_files)

SpecSuggest == InitSnap /\ [][NextSuggest]_vars

----------------------------------------------------------------------------
(* SpecSample: the sample suggest_subject_schema takes of up to four files: *)
(* those of two items and their copies in a snapshot.                       *)

SampleInputs == {Frame("v" :> Int64, << >>), TwoColumns}

NextSample ==
    \/ \E item \in ItemNames, df \in SampleInputs :
            write(1, item, df, None, None, FALSE, None)
    \/ create_snapshot(1, Some(<<"a">>))
    \/ \E fraction \in SampleFractions, max_files \in MaxFilesArgs :
            suggest_subject_schema(fraction, max_files)

SpecSample == InitSnap /\ [][NextSample]_vars

----------------------------------------------------------------------------
(* SpecTypes: the schema of a subject set from an item, over dtypes with    *)
(* and without parameters. One Subject object writes the item; the other    *)
(* sets the schema, is opened again and scans the subject.                  *)

TypeInputs ==
    {Frame("v" :> ty, << >>) :
        ty \in {Int64, Float64, Utf8, Boolean, Date, Time,
                Datetime("ms", None), Datetime("us", None), Datetime("ns", None),
                Datetime("us", Some("UTC")), Datetime("ns", Some("Europe/Paris")),
                Duration("ms"), Duration("us"), Duration("ns")}}

NextTypes ==
    \/ \E df \in TypeInputs, ov \in BOOLEAN :
            write(2, <<"a">>, df, None, None, ov, None)
    \/ \E item \in ItemNames, c \in Prompt :
            set_schema(1, item, c[1], c[2])
    \/ open_subject(1)
    \/ \E h \in Handles :
            full_subject(h)

SpecTypes == InitSnap /\ [][NextTypes]_vars

----------------------------------------------------------------------------
(* SpecRead: reads of an item under every choice of projection, sort and    *)
(* filter, in a subject without a schema: flat with and without a declared  *)
(* sort_on, or partitioned on k (an item of several files).                 *)

InitRead ==
    InitWith({EmptyDict, "sort_on" :> "t", "partition_on" :> PyList(<<"k">>)}, {None})

ColumnArgs == {None, Some({"t"}), Some({"k", "t"})}

FilterArgs == {None, Some(<<"k", 0>>), Some(<<"t", 0>>)}

NextRead ==
    \/ \E df \in DataInputs :
            write(1, <<"a">>, df, None, None, TRUE, None)
    \/ \E filters \in FilterArgs, pre_sort \in BOOLEAN, cols \in ColumnArgs,
          so \in SortArgs :
            to_polars(<<"a">>, None, filters, pre_sort, cols, so)

SpecRead == InitRead /\ [][NextRead]_vars

----------------------------------------------------------------------------
(* SpecReadSchema: reads of an item in a subject with a declared schema,    *)
(* whose files lack schema columns or carry further ones (written under a   *)
(* schema given to write).                                                  *)

InitReadSchema == InitWith({EmptyDict}, {Some(d) : d \in SchemaDocs})

ReadColumnArgs == {None, Some({"t"}), Some({"k"}), Some({"k", "t"}), Some({"t", "x"})}

NextReadSchema ==
    \/ \E df \in SchemaInputs, ov \in BOOLEAN, sc \in SchemaArgs :
            write(1, <<"a">>, df, None, None, ov, sc)
    \/ \E cols \in ReadColumnArgs :
            to_polars(<<"a">>, None, None, FALSE, cols, None)

SpecReadSchema == InitReadSchema /\ [][NextReadSchema]_vars

----------------------------------------------------------------------------
(* SpecItem: writes, with and without metadata, and appends of tables and   *)
(* of an object that is no table, to one item of a subject with and without *)
(* partition_on.                                                            *)

ItemInputs == FramesOf([c \in {"k", "t"} |-> Int64], DataRows, 1) \cup {NotATable}

\* the metadata a caller passes to write
ItemMetaArgs == {None, Some("src" :> 0), Some("owner" :> 1)}

InitItem == InitWith({EmptyDict, "partition_on" :> PyList(<<"k">>)}, {None})

NextItem ==
    \/ \E item \in DataItems, df \in ItemInputs, md \in ItemMetaArgs, ov \in BOOLEAN :
            write(1, item, df, md, None, ov, None)
    \/ \E item \in DataItems, df \in ItemInputs :
            append(1, item, df, None)

SpecItem == InitItem /\ [][NextItem]_vars

----------------------------------------------------------------------------
(* SpecSize: writes and appends to one item of a subject without            *)
(* partition_on, under partition sizes set through set_partition_size.      *)

SizeInputs == FramesOf("t" :> Int64, {[t |-> 0], [t |-> 1]}, MaxRows)

\* the sizes a caller sets, in bytes; None asks for the default
SizeArgs == {None, Some(8), Some(16)}

NextSize ==
    \/ \E item \in DataItems, df \in SizeInputs, ov \in BOOLEAN :
            write(1, item, df, None, None, ov, None)
    \/ \E item \in DataItems, df \in SizeInputs :
            append(1, item, df, None)
    \/ \E size \in SizeArgs :
            set_partition_size(size)

SpecSize == InitSnap /\ [][NextSize]_vars

----------------------------------------------------------------------------
(* SpecConc: two processes, each with its own Subject object, append once   *)
(* to the same item of a subject partitioned on k, after any appends made   *)
(* before either began.                                                     *)

ConcInputs ==
    FramesOf([c \in {"k", "t"} |-> Int64], DataRows, 1)
        \cup {Frame([c \in {"k", "t"} |-> Int64], <<[k |-> 0, t |-> 1], [k |-> 1, t |-> 0]>>)}

NextConc ==
    \/ /\ writers = NoWriters
       /\ \E item \in DataItems, df \in ConcInputs : append(1, item, df, None)
    \/ \E w \in Writers, item \in DataItems, df \in ConcInputs :
            AppendStart(w, w, item, df, None)
    \/ \E w \in Writers : AppendRead(w)
    \/ \E w \in Writers : AppendWrite(w)

SpecConc == InitKeys /\ [][NextConc]_vars

----------------------------------------------------------------------------
(* SpecDisjoint: two processes append once each to the same item of a       *)
(* subject partitioned on k, tables of one or two keys out of three, after  *)
(* any appends made before either began.                                    *)

DisjointInputs ==
    {Frame([c \in {"k", "t"} |-> Int64], rows) :
        rows \in {<<[k |-> 0, t |-> 0]>>, <<[k |-> 2, t |-> 0]>>,
                  <<[k |-> 0, t |-> 1], [k |-> 1, t |-> 0]>>}}

NextDisjoint ==
    \/ /\ writers = NoWriters
       /\ \E item \in DataItems, df \in DisjointInputs : append(1, item, df, None)
    \/ \E w \in Writers, item \in DataItems, df \in DisjointInputs :
            AppendStart(w, w, item, df, None)
    \/ \E w \in Writers : AppendRead(w)
    \/ \E w \in Writers : AppendWrite(w)

SpecDisjoint == InitKeys /\ [][NextDisjoint]_vars

----------------------------------------------------------------------------
(* SpecPartial: appends to one item of a subject partitioned on k, of       *)
(* tables whose column t is Int64 in some and Float64 in others, so that    *)
(* the key files come to differ in schema.                                  *)

PartialInputs ==
    UNION {FramesOf(("k" :> Int64) @@ ("t" :> ty),
                    {[k |-> 0, t |-> 0], [k |-> 1, t |-> 0]}, MaxRows) :
           ty \in {Int64, Float64}}

InitPartial == InitWith({"partition_on" :> PyList(<<"k">>)}, {None})

NextPartial ==
    \E item \in DataItems, df \in PartialInputs : append(1, item, df, None)

SpecPartial == InitPartial /\ [][NextPartial]_vars

----------------------------------------------------------------------------
(* SpecItems: writes, appends and deletions of two items through one        *)
(* Subject object, in a subject with and without partition_on.              *)

ItemsInputs == {Frame([c \in {"k", "t"} |-> Int64], <<[k |-> 0, t |-> 0]>>)}

NextItems ==
    \/ \E item \in ItemNames, df \in ItemsInputs, ov \in BOOLEAN :
            write(1, item, df, None, None, ov, None)
    \/ \E item \in ItemNames, df \in ItemsInputs :
            append(1, item, df, None)
    \/ \E item \in ItemNames :
            delete_item(1, item, FALSE, "y")

SpecItems == InitItem /\ [][NextItems]_vars

----------------------------------------------------------------------------
(* SpecSort: writes and appends with and without a sort_on argument, to one *)
(* item of a subject with and without partition_on and a declared sort_on.  *)

\* rows whose order by t is not their order by u
SortRows == {[k |-> 0, t |-> 0, u |-> 1], [k |-> 0, t |-> 1, u |-> 0],
             [k |-> 1, t |-> 0, u |-> 0]}

SortInputs == FramesOf([c \in {"k", "t", "u"} |-> Int64], SortRows, 2)

SortOnArgs == {None, Some("u")}

InitSort ==
    InitWith({Merge(p, s) : p \in {EmptyDict, "partition_on" :> PyList(<<"k">>)},
                            s \in {EmptyDict, "sort_on" :> "t"}}, {None})

NextSort ==
    \/ \E item \in DataItems, df \in SortInputs, so \in SortOnArgs, ov \in BOOLEAN :
            write(1, item, df, None, so, ov, None)
    \/ \E item \in DataItems, df \in SortInputs, so \in SortOnArgs :
            append(1, item, df, so)

SpecSort == InitSort /\ [][NextSort]_vars

----------------------------------------------------------------------------
(* SpecPolicy: the subject's metadata document saved with a partition_on or *)
(* a sort_on entry through a Subject object that also writes an item and is *)
(* opened again at any time.                                                *)

InitPolicy == InitWith({EmptyDict, "sort_on" :> "t"}, {None})

\* the dictionaries a caller passes
PolicyDicts ==
    {"owner" :> 1, "sort_on" :> "t", "sort_on" :> "k",
     "partition_on" :> PyList(<<"k">>)}

PolicyInputs ==
    FramesOf([c \in {"k", "t"} |-> Int64], {[k |-> 0, t |-> 1], [k |-> 1, t |-> 0]}, 2)

NextPolicy ==
    \/ \E h \in Handles, metadata \in PolicyDicts, ov \in BOOLEAN :
            save_subject_metadata(h, metadata, ov)
    \/ \E h \in Handles :
            open_subject(h)
    \/ \E h \in Handles, item \in DataItems, df \in PolicyInputs :
            write(h, item, df, None, None, TRUE, None)

SpecPolicy == InitPolicy /\ [][NextPolicy]_vars

----------------------------------------------------------------------------
(* SpecMeta: the subject's metadata document, saved with and without        *)
(* overwrite through two Subject objects that are opened again at any time. *)

InitMeta == InitWith({EmptyDict, ("source" :> 0) @@ ("description" :> 0)}, {None})

\* the dictionaries a caller passes
MetaDicts ==
    {EmptyDict, "source" :> 1, "owner" :> 1, ("source" :> 1) @@ ("owner" :> 1)}

NextMeta ==
    \/ \E h \in Handles, metadata \in MetaDicts, ov \in BOOLEAN :
            save_subject_metadata(h, metadata, ov)
    \/ \E h \in Handles :
            open_subject(h)

SpecMeta == InitMeta /\ [][NextMeta]_vars

----------------------------------------------------------------------------
(* Properties                                                               *)

\* the number of occurrences of r in rows, and equality of rows as multisets
Count(rows, r) == Cardinality({i \in DOMAIN rows : rows[i] = r})

SameRows(a, b) ==
    /\ Len(a) = Len(b)
    /\ \A i \in DOMAIN a : Count(a, a[i]) = Count(b, a[i])

\* ascending by col, nulls first
IsSortedBy(rows, col) ==
    \A i \in 1..(Len(rows) - 1) : rows[i][col] <= rows[i + 1][col]

\* the rows of all the files of a directory, one file after the other
RECURSIVE RowsOfFiles(_, _)
RowsOfFiles(files, paths) ==
    IF paths = {} THEN << >>
    ELSE LET p == CHOOSE q \in paths : TRUE
         IN files[p].rows \o RowsOfFiles(files, paths \ {p})

\* the subject declares partition_on = ["k"]
PartitionedOnK(h) == handles[h].partition_on = Some(PyList(<<"k">>))

\* the item directory, an empty one when the item does not exist
DirOf(tree, item) == IF item \in DOMAIN tree THEN tree[item] ELSE EmptyDir

\* C1: a write with overwrite=False on an item whose directory exists fails
\* with the already-exists error, and the item's files, its metadata
\* document and the handle's items set are what they were before the call.
C1_WriteExistingFails ==
    [][(res'.op = "write" /\ ~res'.overwrite /\ res'.item \in DOMAIN fs)
        => /\ res'.status = "AlreadyExists"
           /\ fs' = fs
           /\ handles'[res'.h].items = handles[res'.h].items]_vars

C1_Witness ==
    /\ res.op = "write"
    /\ res.status = "AlreadyExists"
    /\ res.item \in DOMAIN fs
    /\ fs[res.item].files # EmptyDict
    /\ fs[res.item].meta # None

\* C2, as the code has it: after a successful write under an effective
\* schema every written file has the schema's columns and the input's
\* columns, a schema column with the schema's type and any other column with
\* the input's type.
C2_SchemaColumnsAdded ==
    [][(res'.op = "write" /\ res'.status = "ok" /\ res'.schema # EmptyDict)
        => \A p \in DOMAIN fs'[res'.item].files :
              LET file == fs'[res'.item].files[p]
                  input == res'.df[1]
              IN /\ DOMAIN file.schema = DOMAIN res'.schema \cup columns(input)
                 /\ \A c \in DOMAIN file.schema :
                       file.schema[c] = IF c \in DOMAIN res'.schema THEN res'.schema[c]
                                        ELSE input.schema[c]]_vars

\* C2 as stated: after a successful write under an effective schema the
\* column set of every written file equals the schema's column set and every
\* column has the schema's type.
C2_SchemaColumnsEqual ==
    [][(res'.op = "write" /\ res'.status = "ok" /\ res'.schema # EmptyDict)
        => \A p \in DOMAIN fs'[res'.item].files :
              LET file == fs'[res'.item].files[p]
              IN /\ DOMAIN file.schema = DOMAIN res'.schema
                 /\ \A c \in DOMAIN file.schema : file.schema[c] = res'.schema[c]]_vars

C2_Witness ==
    /\ res.op = "write"
    /\ res.status = "ok"
    /\ res.schema # EmptyDict
    /\ DOMAIN res.schema \ columns(res.df[1]) # {}
    /\ columns(res.df[1]) \ DOMAIN res.schema # {}
    /\ \E c \in DOMAIN res.schema \cap columns(res.df[1]) :
          res.df[1].schema[c] # res.schema[c]
    /\ fs[res.item].files # EmptyDict

\* C3: after a successful write in a subject with partition_on = [k] the key
\* directories of the item are the directories k=value of the distinct
\* values of k in the input, each holds one file with rows of that value
\* only, and the rows of all files together are the input rows as a multiset.
C3_PartitionedWrite ==
    [][(res'.op = "write" /\ res'.status = "ok" /\ PartitionedOnK(res'.h))
        => LET input == res'.df[1].rows
               item == fs'[res'.item]
           IN /\ item.dirs = {<<"k=" \o ToString(input[i]["k"])>> : i \in DOMAIN input}
              /\ DOMAIN item.files = {d \o <<ParquetFile>> : d \in item.dirs}
              /\ \A p \in DOMAIN item.files : \A i \in DOMAIN item.files[p].rows :
                    "k=" \o ToString(item.files[p].rows[i]["k"]) = p[1]
              /\ SameRows(RowsOfFiles(item.files, DOMAIN item.files), input)]_vars

C3_Witness ==
    /\ res.op = "write"
    /\ res.status = "ok"
    /\ PartitionedOnK(res.h)
    /\ Len(res.df[1].rows) = MaxRows
    /\ Cardinality(fs[res.item].dirs) = 2
    /\ Cardinality(DOMAIN fs[res.item].files) = 2

\* C4: in a subject without partition_on, an append of rows_B to an item
\* just written with rows_A leaves one file holding the multiset
\* rows_A + rows_B, ordered by the effective sort column when there is one
\* and in the order rows_A, rows_B otherwise; every later read of the item
\* changes nothing on disk and returns the multiset of the file's rows, in
\* the order of the sort column whenever the file is in that order.
C4_AppendAfterWrite ==
    [][/\ (/\ res.op = "write" /\ res.status = "ok"
           /\ res'.op = "append" /\ res'.status = "ok" /\ res'.item = res.item
           /\ handles[res'.h].partition_on = None)
          => LET after == fs'[res'.item].files
             IN /\ DOMAIN after = {<<ParquetFile>>}
                /\ SameRows(after[<<ParquetFile>>].rows,
                            res.df[1].rows \o res'.df[1].rows)
                /\ res'.sort # None => IsSortedBy(after[<<ParquetFile>>].rows, res'.sort[1])
                /\ res'.sort = None =>
                      after[<<ParquetFile>>].rows =
                          fs[res.item].files[<<ParquetFile>>].rows \o res'.df[1].rows
       /\ (/\ res'.op = "to_polars" /\ res'.status = "ok" /\ res'.name = << >>
           /\ handles[1].partition_on = None)
          => /\ fs' = fs
             /\ SameRows(res'.out[1].rows, fs[res'.item].files[<<ParquetFile>>].rows)
             /\ IsSortedBy(fs[res'.item].files[<<ParquetFile>>].rows, "t")
                   => IsSortedBy(res'.out[1].rows, "t")]_vars

C4_Witness ==
    /\ res.op = "append"
    /\ res.status = "ok"
    /\ handles[res.h].partition_on = None
    /\ res.sort # None
    /\ Len(res.df[1].rows) >= 1
    /\ Len(fs[res.item].files[<<ParquetFile>>].rows) = MaxFileRows
    /\ \E i, j \in DOMAIN fs[res.item].files[<<ParquetFile>>].rows :
          fs[res.item].files[<<ParquetFile>>].rows[i]["t"]
              # fs[res.item].files[<<ParquetFile>>].rows[j]["t"]

\* the declared partition columns absent from a table, in declared order
AbsentColumns(h, df) ==
    SelectSeq(handles[h].partition_on[1].val, LAMBDA col : col \notin columns(df))

\* C5: when the subject declares partition_on as a list, a write (one that
\* is not refused for the item existing) and an append whose input lacks a
\* declared column fail with the error naming every absent column, and
\* change no file or directory.
C5_MissingPartitionColumnFails ==
    [][(/\ res'.op \in {"write", "append"}
        /\ res'.df # None
        /\ handles[res'.h].partition_on # None
        /\ handles[res'.h].partition_on[1].tag = "list"
        /\ AbsentColumns(res'.h, res'.df[1]) # << >>)
        => /\ res'.status = "PartitionColumnMissing"
           /\ res'.missing = AbsentColumns(res'.h, res'.df[1])
           /\ fs' = fs]_vars

C5_Witness ==
    /\ res.op = "write"
    /\ res.status = "ok"
    /\ handles[res.h].partition_on = Some(PyList(<<"k">>))
    /\ "k" \notin columns(res.df[1])
    /\ <<"k=__HIVE_DEFAULT_PARTITION__">> \in fs[res.item].dirs

\* C6: after a key-partitioned append, for every key in the incoming rows
\* the file at that key's path holds the rows it held before (none when
\* there was no file) plus the incoming rows of that key; every other data
\* file and the item's metadata document are unchanged.
C6_KeyedAppend ==
    [][(res'.op = "append" /\ res'.status = "ok" /\ PartitionedOnK(res'.h))
        => LET incoming == res'.df[1].rows
               before == DirOf(fs, res'.item)
               after == DirOf(fs', res'.item)
               keyPath(v) == <<"k=" \o ToString(v), ParquetFile>>
               touched == {keyPath(incoming[i]["k"]) : i \in DOMAIN incoming}
           IN /\ \A i \in DOMAIN incoming :
                    LET v == incoming[i]["k"]
                        held == IF keyPath(v) \in DOMAIN before.files
                                THEN before.files[keyPath(v)].rows ELSE << >>
                    IN /\ keyPath(v) \in DOMAIN after.files
                       /\ SameRows(after.files[keyPath(v)].rows,
                                   held \o SelectSeq(incoming, LAMBDA r : r["k"] = v))
              /\ DOMAIN after.files = DOMAIN before.files \cup touched
              /\ \A p \in DOMAIN before.files \ touched : after.files[p] = before.files[p]
              /\ after.meta = before.meta]_vars

C6_Witness ==
    /\ res.op = "append"
    /\ res.status = "ok"
    /\ PartitionedOnK(res.h)
    /\ res.item \in DOMAIN fs
    /\ fs[res.item].meta # None
    /\ Len(res.df[1].rows) >= 1
    /\ \A i \in DOMAIN res.df[1].rows : res.df[1].rows[i]["k"] = 0
    /\ {<<"k=0", ParquetFile>>, <<"k=1", ParquetFile>>} \subseteq DOMAIN fs[res.item].files
    /\ Len(fs[res.item].files[<<"k=0", ParquetFile>>].rows) > Len(res.df[1].rows)

\* C7: delete_snapshot(name, confirm=False), through any handle, returns
\* success; it changes nothing when the name has no snapshot directory and
\* removes the directory, and the name from list_snapshots, when it has one.
C7_DeleteSnapshot ==
    [][(res'.op = "delete_snapshot" /\ ~res'.confirm)
        => /\ res'.status = "ok"
           /\ res'.ret
           /\ fs' = fs
           /\ snaps' = [n \in DOMAIN snaps \ {res'.name} |-> snaps[n]]]_vars

C7_Witness ==
    /\ res.op = "delete_snapshot"
    /\ ~res.confirm
    /\ res.status = "ok"
    /\ res.ret
    /\ res.name \in DOMAIN snaps
    /\ res.name \notin handles[res.h].snapshots

\* C8: opening item i against snapshot s, when create_snapshot has stored s
\* and s holds a copy of i, succeeds and reads from the directory of that
\* copy, _snapshots/s/i.
C8_SnapshotItemOpens ==
    [][(/\ res'.op = "to_polars"
        /\ res'.name \in DOMAIN snaps
        /\ res'.item \in DOMAIN snaps[res'.name].items)
        => /\ res'.status = "ok"
           /\ res'.root = <<SnapshotsDir, res'.name, res'.item>>]_vars

C8_Witness ==
    /\ res.op = "to_polars"
    /\ res.name \in DOMAIN snaps
    /\ res.item \in DOMAIN snaps[res.name].items
    /\ res.status = "NotFound"

\* what a snapshot holds when it is taken of the current tree
TreeNow ==
    [items |-> [i \in DOMAIN fs \ {SnapshotsDir} |-> fs[i]],
     meta |-> subjMeta, schema |-> subjSchema]

\* one call leaves the snapshots as they were, but for a snapshot that
\* create_snapshot adds, equal to the tree of that moment, and for those
\* that delete_snapshot (of that name) or delete_snapshots removes
SnapshotsKept ==
    /\ \A s \in DOMAIN snaps :
          \/ s \in DOMAIN snaps' /\ snaps'[s] = snaps[s]
          \/ res'.op = "delete_snapshot" /\ res'.name = s /\ s \notin DOMAIN snaps'
          \/ res'.op = "delete_snapshots" /\ snaps' = EmptyDict
    /\ \A s \in DOMAIN snaps' \ DOMAIN snaps :
          /\ res'.op = "create_snapshot"
          /\ snaps'[s] = TreeNow

\* C9: a snapshot equals the subject's tree as it was when create_snapshot
\* took it, and stays so under every later write, overwrite, append,
\* delete_item and create_snapshot; only delete_snapshot of its name and
\* delete_snapshots remove it.
C9_SnapshotImmutable == [][SnapshotsKept]_vars

C9_Witness ==
    /\ res.op = "write"
    /\ res.status = "ok"
    /\ res.item = SnapshotsDir
    /\ res.overwrite
    /\ snaps = EmptyDict
    /\ \E h \in Handles : handles[h].snapshots # {}

\* the same for the calls on item names other than _snapshots
SnapshotsKeptByItems == [][res'.item # SnapshotsDir => SnapshotsKept]_vars

\* the name reduced to its alphanumeric, "." and "_" characters
Reduced(name) == SelectSeq(name, LAMBDA e : e \in Alnum \cup {".", "_"})

C11_FirstCopyKept ==
    [][(/\ res'.op = "create_snapshot"
        /\ res'.name # << >>
        /\ Reduced(res'.name) \in DOMAIN snaps)
        => /\ res'.status = "FileExists"
           /\ snaps' = snaps
           /\ fs' = fs
           /\ handles' = handles]_vars

\* C11 as stated: create_snapshot under a name that already has a snapshot
\* completes without error, and the snapshot under that name then holds the
\* copy of the subject's state at this later call.
C11_LastCopyWins ==
    [][(/\ res'.op = "create_snapshot"
        /\ res'.name # << >>
        /\ Reduced(res'.name) \in DOMAIN snaps)
        => /\ res'.status = "ok"
           /\ Reduced(res'.name) \in DOMAIN snaps'
           /\ snaps'[Reduced(res'.name)] = TreeNow]_vars

\* a second create_snapshot under another spelling of a taken name, after the
\* subject has changed
C11_Witness ==
    /\ res.op = "create_snapshot"
    /\ res.status = "FileExists"
    /\ res.name = <<"a", "-">>
    /\ <<"a">> \in DOMAIN snaps
    /\ snaps[<<"a">>] # TreeNow

----------------------------------------------------------------------------
(* suggest_subject_schema                                                   *)

Suggested == res.op = "suggest_subject_schema"

\* the call sampled two files that both have the column v: its dtype in the
\* first and in the second, and the dtype suggested for it
SampledPair == Suggested /\ res.status = "ok" /\ Len(res.sampled) = 2

FirstType == FileSchema(res.sampled[1])["v"]

SecondType == FileSchema(res.sampled[2])["v"]

SuggestedType == res.out[1]["v"]

\* the order of the numeric dtypes the rule is stated with
OrderOfNumerics ==
    <<"Int8", "Int16", "Int32", "Int64", "UInt8", "UInt16", "UInt32", "UInt64",
      "Float32", "Float64">>

IsNumeric(t) == \E i \in DOMAIN OrderOfNumerics : OrderOfNumerics[i] = t.cls

Rank(t) == CHOOSE i \in DOMAIN OrderOfNumerics : OrderOfNumerics[i] = t.cls

LaterOf(t1, t2) == IF Rank(t1) >= Rank(t2) THEN t1 ELSE t2

SignedInteger(t) == t.cls \in {"Int8", "Int16", "Int32", "Int64"}

UnsignedInteger(t) == t.cls \in {"UInt8", "UInt16", "UInt32", "UInt64"}

Floating(t) == t.cls \in {"Float32", "Float64"}

\* a dtype whose values carry a sign: the signed integers and the floats
Signed(t) == SignedInteger(t) \/ Floating(t)

\* the parts of C12 on Null and on strings
NullAndStringRules ==
    /\ FirstType = NullType => SuggestedType = SecondType
    /\ SecondType = NullType => SuggestedType = FirstType
    /\ (IsNumeric(FirstType) /\ SecondType = Utf8) => SuggestedType = Utf8
    /\ (FirstType = Utf8 /\ IsNumeric(SecondType)) => SuggestedType = Utf8

\* C12, as the code has it: for two numeric dtypes of one column in two
\* sampled files the suggestion is Float64 when exactly one of them is a
\* signed integer (Int8..Int64), and otherwise the later of the two in the
\* order Int8..Int64, UInt8..UInt64, Float32, Float64; Null paired with X
\* gives X, a numeric dtype paired with a string gives string.
C12_NumericRule ==
    SampledPair =>
        /\ (IsNumeric(FirstType) /\ IsNumeric(SecondType)) =>
              SuggestedType = IF SignedInteger(FirstType) # SignedInteger(SecondType)
                              THEN Float64
                              ELSE LaterOf(FirstType, SecondType)
        /\ NullAndStringRules

\* C12 as stated: Float64 when the signedness of the two numeric dtypes
\* differs (one is signed, the other unsigned), and otherwise the later of
\* the two in the order; Null paired with X gives X, a numeric dtype paired
\* with a string gives string.
C12_SignednessRule ==
    SampledPair =>
        /\ (IsNumeric(FirstType) /\ IsNumeric(SecondType)) =>
              SuggestedType = IF Signed(FirstType) # Signed(SecondType)
                              THEN Float64
                              ELSE LaterOf(FirstType, SecondType)
        /\ NullAndStringRules

\* a signed integer and a 32-bit float were sampled, and Float64 suggested
C12_Witness ==
    /\ SampledPair
    /\ FirstType = Int32
    /\ SecondType = Float32
    /\ SuggestedType = Float64

\* the bits of an integer dtype, and those a float dtype keeps exactly
Bits(t) ==
    CASE t.cls \in {"Int8", "UInt8"} -> 8
      [] t.cls \in {"Int16", "UInt16"} -> 16
      [] t.cls \in {"Int32", "UInt32"} -> 32
      [] t.cls \in {"Int64", "UInt64"} -> 64

Mantissa(t) == IF t.cls = "Float32" THEN 24 ELSE 53

\* every value of dtype t is a value of dtype r, exactly
Represents(r, t) ==
    \/ t = NullType
    \/ r = t
    \/ r = Utf8
    \/ SignedInteger(t) /\ SignedInteger(r) /\ Bits(t) <= Bits(r)
    \/ UnsignedInteger(t) /\ UnsignedInteger(r) /\ Bits(t) <= Bits(r)
    \/ UnsignedInteger(t) /\ SignedInteger(r) /\ Bits(t) < Bits(r)
    \/ SignedInteger(t) /\ Floating(r) /\ Bits(t) - 1 <= Mantissa(r)
    \/ UnsignedInteger(t) /\ Floating(r) /\ Bits(t) <= Mantissa(r)
    \/ t = Float32 /\ r = Float64

\* C13: the dtype suggested for a column holds every value of either of the
\* two dtypes sampled for it, exactly (the rule never narrows).
C13_NeverNarrows ==
    SampledPair => Represents(SuggestedType, FirstType) /\ Represents(SuggestedType, SecondType)

\* Float64 suggested for a signed and an unsigned 64-bit integer
C13_Witness ==
    /\ SampledPair
    /\ FirstType = Int64
    /\ SecondType = UInt64
    /\ SuggestedType = Float64

\* n * num / den rounded down and rounded up
FloorOf(n, num, den) == CHOOSE k \in 0..n : k * den <= n * num /\ n * num < (k + 1) * den

CeilOf(n, num, den) == CHOOSE k \in 0..n : (k - 1) * den < n * num /\ n * num <= k * den

Least(S) == CHOOSE x \in S : \A y \in S : x <= y

\* the sample is the start of the listing
SampleIsPrefix == res.sampled = SubSeq(res.listing, 1, Len(res.sampled))

\* C14, as the code has it: of n >= 1 files, with sample_fraction in (0,1]
\* and max_files >= 1, the call samples min(max(1, floor(n * sample_fraction)),
\* max_files, n) files, the first of the listing.
C14_SampleFloor ==
    (Suggested /\ res.listing # << >>) =>
        LET n == Len(res.listing)
            part == FloorOf(n, res.fraction[1], res.fraction[2])
        IN /\ Len(res.sampled) = Least({IF part >= 1 THEN part ELSE 1, res.max_files, n})
           /\ SampleIsPrefix

\* C14 as stated: the call samples min(ceil(n * sample_fraction), max_files, n)
\* files, the first of the listing.
C14_SampleCeil ==
    (Suggested /\ res.listing # << >>) =>
        LET n == Len(res.listing)
        IN /\ Len(res.sampled) =
                Least({CeilOf(n, res.fraction[1], res.fraction[2]), res.max_files, n})
           /\ SampleIsPrefix

\* one file sampled of three, at sample_fraction 1/2
C14_Witness ==
    /\ Suggested
    /\ Len(res.listing) = 3
    /\ res.fraction = <<1, 2>>
    /\ res.max_files = 3
    /\ Len(res.sampled) = 1

\* C15, as the code has it: on a subject directory without a file that
\* matches the pattern the call returns the empty mapping and raises nothing.
C15_NoFilesEmptySchema ==
    (Suggested /\ SubjectFiles = {}) => (res.status = "ok" /\ res.out = Some(EmptyDict))

\* C15 as stated: on a subject directory without a file that matches the
\* pattern the call raises an error and returns no schema.
C15_NoFilesRaises ==
    (Suggested /\ SubjectFiles = {}) => (res.status # "ok" /\ res.out = None)

C15_Witness ==
    /\ Suggested
    /\ SubjectFiles = {}
    /\ res.listing = << >>
    /\ res.out = Some(EmptyDict)

----------------------------------------------------------------------------
(* the subject's schema                                                     *)

\* C16: full_subject on a subject without a declared schema (no
\* quiver_schema.json, set_schema never called on the object) fails with an
\* error and returns no scan.
C16_FullSubjectNeedsSchema ==
    (res.op = "full_subject" /\ subjSchema = None /\ handles[res.h].schema = EmptyDict)
        => (res.status # "ok" /\ res.out = None)

\* full_subject returned a scan under the empty schema
C16_Witness ==
    /\ res.op = "full_subject"
    /\ subjSchema = None
    /\ handles[res.h].schema = EmptyDict
    /\ res.status = "ok"
    /\ res.out = Some([kind |-> "LazyFrame", schema |-> EmptyDict])

\* set_schema has just written the schema res.schema to quiver_schema.json
SchemaSaved == res.op = "set_schema" /\ res.status = "ok" /\ res.saved

RoundTrip ==
    /\ ~read_subject_schema_raises(subjSchema)
    /\ read_subject_schema(subjSchema) = res.schema

\* C19: read_subject_schema after write_subject_schema succeeds and returns
\* the schema written, for dtypes without parameters, Datetime with a time
\* unit, Datetime with time unit and time zone, and Duration with a time unit.
C19_SchemaRoundTrip == SchemaSaved => RoundTrip

\* a schema with a Duration column was written, and reading it back raises
C19_Witness ==
    /\ SchemaSaved
    /\ res.schema = ("v" :> Duration("us"))
    /\ subjSchema = Some("v" :> <<"Duration", "(", "time_unit", "=", "'", "us", "'", ")">>)
    /\ read_subject_schema_raises(subjSchema)

\* the same for the schemas without a Duration column
RoundTripButDuration ==
    (SchemaSaved /\ \A col \in DOMAIN res.schema : res.schema[col].cls # "Duration")
        => RoundTrip

----------------------------------------------------------------------------
(* reading an item                                                          *)

\* a read of an item that exists and holds files of one schema
Read ==
    /\ res.op = "to_polars"
    /\ res.name = << >>
    /\ res.item \in DOMAIN fs
    /\ fs[res.item].files # EmptyDict
    /\ \A p, q \in DOMAIN fs[res.item].files :
          fs[res.item].files[p].schema = fs[res.item].files[q].schema

FileColumns == DOMAIN fs[res.item].files[CHOOSE p \in DOMAIN fs[res.item].files : TRUE].schema

\* the columns asked for, all of the files' when none are
Asked == IF res.columns = None THEN FileColumns ELSE res.columns[1]

Sorts == res.pre_sort /\ res.sort # None

\* a row cut down to the columns asked for, and whether the filter keeps it
Cut(row) == [c \in Asked |-> row[c]]

Keeps(row) == res.filters = None \/ row[res.filters[1][1]] = res.filters[1][2]

\* the rows expected of a sequence of file rows: cut, then those the filter keeps
Expected(rows) == SelectSeq([i \in DOMAIN rows |-> Cut(rows[i])], Keeps)

\* C17: the rows an Item yields are filter(sort(project(all rows of the
\* item's files))): they have the projected columns, they are the projected
\* rows the filter keeps, in the order of the sort when pre_sort is asked and
\* a sort_on is in effect and in the order of the files otherwise; a sort or
\* a filter on a column that is not projected fails.
C17_ProjectSortFilter ==
    Read =>
        IF \/ ~(Asked \subseteq FileColumns)
           \/ Sorts /\ res.sort[1] \notin Asked
           \/ res.filters # None /\ res.filters[1][1] \notin Asked
        THEN res.status = "ColumnNotFound"
        ELSE /\ res.status = "ok"
             /\ columns(res.out[1]) = Asked
             /\ SameRows(res.out[1].rows,
                         Expected(RowsOfFiles(fs[res.item].files, DOMAIN fs[res.item].files)))
             /\ Sorts => IsSortedBy(res.out[1].rows, res.sort[1])
             /\ ~Sorts => \E order \in GroupOrders(DOMAIN fs[res.item].files) :
                             res.out[1].rows = Expected(ConcatRows(fs[res.item].files, order))

\* a projected, sorted and filtered read of an item of two files that drops a row
C17_Witness ==
    /\ Read
    /\ res.status = "ok"
    /\ res.columns = Some({"k", "t"})
    /\ Sorts
    /\ res.filters = Some(<<"k", 0>>)
    /\ Cardinality(DOMAIN fs[res.item].files) = 2
    /\ Len(res.out[1].rows) = 1

\* the schema declared for the subject
Declared == read_subject_schema(subjSchema)

\* a column of the result has the declared dtype, and holds nulls only when
\* the files lack it
AsDeclared(c) ==
    /\ res.out[1].schema[c] = Declared[c]
    /\ c \notin FileColumns => \A i \in DOMAIN res.out[1].rows : res.out[1].rows[i][c] = Null

\* C18, as the code has it: materialising an Item in a subject with a
\* declared schema fails when a projected column is not in the files; without
\* a projection the frame holds the files' columns and every declared column,
\* with a projection exactly the projected columns; in both, a declared
\* column has the declared dtype, and is all null when the files lack it.
C18_SelectedColumnsValidated ==
    (Read /\ Declared # EmptyDict) =>
        IF ~(Asked \subseteq FileColumns)
        THEN res.status = "ColumnNotFound"
        ELSE /\ res.status = "ok"
             /\ columns(res.out[1]) =
                    IF res.columns = None THEN FileColumns \cup DOMAIN Declared ELSE Asked
             /\ \A c \in columns(res.out[1]) \cap DOMAIN Declared : AsDeclared(c)

\* C18 as stated: materialising an Item in a subject with a declared schema
\* yields a frame that holds every declared column, with the declared dtype
\* and all null when the files lack it, for every projection and for files
\* that lack schema columns.
C18_EveryDeclaredColumn ==
    (Read /\ Declared # EmptyDict) =>
        /\ res.status = "ok"
        /\ DOMAIN Declared \subseteq columns(res.out[1])
        /\ \A c \in DOMAIN Declared : AsDeclared(c)

\* a read that projects t from files without k: the frame has no column k
C18_Witness ==
    /\ Read
    /\ Declared # EmptyDict
    /\ res.status = "ok"
    /\ res.columns = Some({"t"})
    /\ "k" \notin FileColumns
    /\ columns(res.out[1]) = {"t"}
    /\ res.out[1].schema["t"] = Float64
    /\ fs[res.item].files[<<ParquetFile>>].schema["t"] = Int64

----------------------------------------------------------------------------
(* metadata documents                                                       *)

\* the keys of a document but the entry write_metadata maintains
OwnKeys(doc) == DOMAIN doc \ {"_updated"}

\* a save on a subject directory that holds a metadata document
Saves == res'.op = "save_subject_metadata" /\ subjMeta # None

\* the document stored: m's keys with m's values; without overwrite the old
\* keys absent from m as well, with their old values; an "_updated" entry
StoredAsAsked ==
    LET m == res'.metadata
        old == read_metadata(subjMeta)
        new == read_metadata(subjMeta')
    IN /\ \A key \in OwnKeys(m) : key \in DOMAIN new /\ new[key] = m[key]
       /\ ~res'.overwrite =>
             /\ OwnKeys(new) = OwnKeys(m) \cup OwnKeys(old)
             /\ \A key \in OwnKeys(old) \ DOMAIN m : new[key] = old[key]
       /\ res'.overwrite => OwnKeys(new) = OwnKeys(m)
       /\ "_updated" \in DOMAIN new

\* C20: write_metadata(path, m) without overwrite on a directory that holds
\* a metadata document stores the document in which every key of m has m's
\* value and every old key absent from m keeps its old value; with overwrite
\* it stores only m's keys; in both cases the stored document has an
\* "_updated" entry and the caller's dictionary m is not modified.
C20_WriteMetadata ==
    [][Saves => (StoredAsAsked /\ res'.metadata_after = res'.metadata)]_vars

\* the same without its last part, on the caller's dictionary
StoredDocument == [][Saves => StoredAsAsked]_vars

\* a save with overwrite that left "_updated" in the caller's dictionary, which
\* the Subject object keeps as its metadata
C20_Witness ==
    /\ res.op = "save_subject_metadata"
    /\ res.overwrite
    /\ res.metadata = ("owner" :> 1)
    /\ "_updated" \in DOMAIN res.metadata_after
    /\ "_updated" \in DOMAIN handles[res.h].metadata
    /\ OwnKeys(read_metadata(subjMeta)) = {"owner"}


----------------------------------------------------------------------------
(* C21..C30: invalid input, the size warning, overwrite, row counts,        *)
(* interleaved and failing appends, the items collection, schema and sort   *)
(* order of the files, item metadata.                                       *)

\* C21: write and append given a data object that is no table fail with the
\* invalid-input error and leave the item's directory, data files and
\* metadata as they were, also write with overwrite=True on an existing item.
C21_InvalidInputRejected ==
    [][(res'.op \in {"write", "append"} /\ res'.df = Some(NotATable))
        => (res'.status = "InvalidInput" /\ fs' = fs)]_vars

\* write(overwrite=True) of an object that is no table has emptied an item
\* written before, and failed with another error
C21_Witness ==
    /\ res.op = "write"
    /\ res.df = Some(NotATable)
    /\ res.overwrite
    /\ res.status = "AttributeError"
    /\ res.item \in handles[res.h].items
    /\ fs[res.item] = EmptyDir

\* append of an object that is no table is refused before anything is done
AppendRejectsInvalidInput ==
    [][(res'.op = "append" /\ res'.df = Some(NotATable))
        => (res'.status = "InvalidInput" /\ fs' = fs)]_vars

\* the file a non-partitioned append to the item res'.item rewrites, when the
\* item holds one file
AppendedTo == fs'[res'.item].files[<<ParquetFile>>]

\* C22: a non-partitioned append warns exactly when the estimated size of the
\* combined data exceeds the partition size configured at the time (the one
\* last set through set_partition_size, else the default), and writes the
\* combined file whether it warns or not.
C22_WarningAtConfiguredSize ==
    [][(res'.op = "append" /\ res'.status = "ok" /\ handles[res'.h].partition_on = None)
        => /\ res'.warned
                = (estimated_size(AppendedTo.rows, AppendedTo.schema) > PARTITION_SIZE)
           /\ AppendedTo.rows
                = fs[res'.item].files[<<ParquetFile>>].rows \o res'.df[1].rows]_vars

\* an append left a file above the size set through set_partition_size and
\* gave no warning
C22_Witness ==
    /\ res.op = "append"
    /\ res.status = "ok"
    /\ PARTITION_SIZE = 16
    /\ estimated_size(fs[res.item].files[<<ParquetFile>>].rows,
                      fs[res.item].files[<<ParquetFile>>].schema) > PARTITION_SIZE
    /\ ~res.warned

\* what the code does: the warning goes by the default size, whatever was
\* set, and the combined file is written either way
WarningAtDefaultSize ==
    [][(res'.op = "append" /\ res'.status = "ok" /\ handles[res'.h].partition_on = None)
        => /\ res'.warned
                = (estimated_size(AppendedTo.rows, AppendedTo.schema) > DEFAULT_PARTITION_SIZE)
           /\ AppendedTo.rows
                = fs[res'.item].files[<<ParquetFile>>].rows \o res'.df[1].rows]_vars

\* the partition columns of the Subject object h (none: no column)
KeyColumns(h) ==
    IF handles[h].partition_on = None THEN << >> ELSE handles[h].partition_on[1].val

\* where write puts a row of its input: under the row's key directory
PathOfRow(h, row) ==
    HiveDir(KeyColumns(h), KeyTuple(row, KeyColumns(h))) \o <<ParquetFile>>

\* a write with overwrite=True of a table to an item that exists has succeeded
Overwrites ==
    /\ res'.op = "write"
    /\ res'.status = "ok"
    /\ res'.overwrite
    /\ res'.item \in DOMAIN fs

\* C23: after a successful write with overwrite=True on an existing item the
\* item's directory holds only data files made from the new input: every
\* file lies where a row of the input belongs (the one file of an item
\* without keys apart) and holds rows of the input only, and every key
\* directory is the one of an input row.
C23_OverwriteReplaces ==
    [][Overwrites =>
        LET new == res'.df[1].rows
            dir == fs'[res'.item]
            cols == KeyColumns(res'.h)
        IN /\ \A p \in DOMAIN dir.files :
                 /\ \/ cols = << >> /\ p = <<ParquetFile>>
                    \/ \E i \in DOMAIN new : p = PathOfRow(res'.h, new[i])
                 /\ \A j \in DOMAIN dir.files[p].rows :
                       \E i \in DOMAIN new :
                          /\ dir.files[p].rows[j] = new[i]
                          /\ p = PathOfRow(res'.h, new[i])
           /\ \A d \in dir.dirs :
                 \E i \in DOMAIN new : d = HiveDir(cols, KeyTuple(new[i], cols))]_vars

\* the second write to the item of a subject partitioned on k, an overwrite,
\* has left the directory of a single key
C23_Witness ==
    /\ res.op = "write"
    /\ res.status = "ok"
    /\ res.overwrite
    /\ now = 2
    /\ handles[res.h].partition_on = Some(PyList(<<"k">>))
    /\ fs[res.item].dirs = {<<"k=1">>}

\* C24: a successful write in a subject without partition_on stores every
\* input row exactly once, in a single file: the row counts of the item's
\* data files add up to the input's, whatever partition size is set and
\* whatever the size of the input.
C24_RowCountPreserved ==
    [][(res'.op = "write" /\ res'.status = "ok" /\ handles[res'.h].partition_on = None)
        => LET input == res'.df[1].rows
               item == fs'[res'.item]
           IN /\ DOMAIN item.files = {<<ParquetFile>>}
              /\ Len(RowsOfFiles(item.files, DOMAIN item.files)) = Len(input)
              /\ SameRows(RowsOfFiles(item.files, DOMAIN item.files), input)]_vars

\* a table estimated above the partition size that was set is in one file
C24_Witness ==
    /\ res.op = "write"
    /\ res.status = "ok"
    /\ handles[res.h].partition_on = None
    /\ PARTITION_SIZE = 8
    /\ Len(res.df[1].rows) = 2
    /\ estimated_size(res.df[1].rows, res.df[1].schema) > PARTITION_SIZE
    /\ DOMAIN fs[res.item].files = {<<ParquetFile>>}
    /\ Len(fs[res.item].files[<<ParquetFile>>].rows) = 2

\* the append of writer w has returned, and its input had rows of one key
\* tuple only
AppendedOneKey(w) ==
    /\ w \in DOMAIN writers
    /\ writers[w].pc = "done"
    /\ Cardinality(KeyTuples(writers[w].call.df[1].rows, <<"k">>)) = 1

\* the key tuple of the append of writer w, and the path of that key's file
KeyOf(w) == KeyTuple(writers[w].call.df[1].rows[1], <<"k">>)

FileOfKey(w) == PartitionDir(<<"k">>, KeyOf(w)) \o <<ParquetFile>>

\* two appends to one item and one key that both read the key's file before
\* either rewrote it: they found the same content
BothReadFirst(w1, w2) ==
    /\ w1 # w2
    /\ AppendedOneKey(w1)
    /\ AppendedOneKey(w2)
    /\ writers[w1].call.item = writers[w2].call.item
    /\ KeyOf(w1) = KeyOf(w2)
    /\ writers[w1].existing_data = writers[w2].existing_data

\* C25: two key-partitioned appends to the same item and key tuple, each a
\* read of the key's file and a later rewrite, can interleave so that both
\* read before either rewrites; the key's file then holds what one of them
\* combined, and lacks the rows of the other: an update is lost.
C25_LostUpdate ==
    \A w1, w2 \in Writers :
        BothReadFirst(w1, w2) =>
            LET file == fs[writers[w1].call.item].files[FileOfKey(w1)].rows
                found == IF writers[w1].existing_data = None THEN << >>
                         ELSE writers[w1].existing_data[1].rows
                rows1 == writers[w1].call.df[1].rows
                rows2 == writers[w2].call.df[1].rows
            IN /\ Len(file) < Len(found) + Len(rows1) + Len(rows2)
               /\ \/ SameRows(file, found \o rows1)
                  \/ SameRows(file, found \o rows2)

\* both appends have returned without error, one of the row (0, 0) and one
\* of the row (0, 1), both to a key that had a file, and the file lacks
\* the row (0, 0)
C25_Witness ==
    /\ BothReadFirst(1, 2)
    /\ res.status = "ok"
    /\ writers[1].existing_data # None
    /\ writers[1].call.df[1].rows = <<[k |-> 0, t |-> 0]>>
    /\ writers[2].call.df[1].rows = <<[k |-> 0, t |-> 1]>>
    /\ Count(fs[<<"a">>].files[FileOfKey(1)].rows, [k |-> 0, t |-> 0])
          = Count(writers[1].existing_data[1].rows, [k |-> 0, t |-> 0])

\* the rows of the file at path p of a directory, none when there is no file
Held(dir, p) == IF p \in DOMAIN dir.files THEN dir.files[p].rows ELSE << >>

\* the file at path p is the same in both directories, or in neither
SameFile(before, after, p) ==
    /\ p \in DOMAIN after.files <=> p \in DOMAIN before.files
    /\ p \in DOMAIN after.files => after.files[p] = before.files[p]

\* C26: when a key-partitioned append goes through its key groups one after
\* another and one group fails, every group before it has its file rewritten
\* with the existing rows and the new rows of its key, the file of the
\* failing group and the files and directories of the groups after it are
\* as they were, and so is everything else: nothing is rolled back.
C26_PartialAppend ==
    [][(/\ res'.op = "append"
        /\ PartitionedOnK(res'.h)
        /\ res'.status \in {"SchemaMismatch", "ColumnNotFound"})
        => LET incoming == res'.df[1].rows
               before == DirOf(fs, res'.item)
               after == DirOf(fs', res'.item)
               kts == KeyTuples(incoming, <<"k">>)
               path(kt) == PartitionDir(<<"k">>, kt) \o <<ParquetFile>>
           IN \E order \in GroupOrders(kts) : \E n \in DOMAIN order :
                 /\ res'.rewritten = n - 1
                 /\ \A i \in 1..(n - 1) :
                       /\ path(order[i]) \in DOMAIN after.files
                       /\ SameRows(after.files[path(order[i])].rows,
                                   Held(before, path(order[i]))
                                       \o RowsOfTuple(incoming, <<"k">>, order[i]))
                 /\ \A i \in n..Len(order) : SameFile(before, after, path(order[i]))
                 /\ \A i \in (n + 1)..Len(order) :
                       PartitionDir(<<"k">>, order[i]) \in after.dirs
                           <=> PartitionDir(<<"k">>, order[i]) \in before.dirs
                 /\ \A p \in (DOMAIN before.files \cup DOMAIN after.files)
                                \ {path(kt) : kt \in kts} : SameFile(before, after, p)
                 /\ after.meta = before.meta]_vars

\* an append of rows of two keys failed at its second group, the key 0 whose
\* file has another type of t, after the rewrite of the file of key 1, which
\* holds more rows than came in
C26_Witness ==
    /\ res.op = "append"
    /\ res.status = "SchemaMismatch"
    /\ res.rewritten = 1
    /\ KeyTuples(res.df[1].rows, <<"k">>) = {<<0>>, <<1>>}
    /\ fs[res.item].files[<<"k=0", ParquetFile>>].schema # res.df[1].schema
    /\ fs[res.item].files[<<"k=1", ParquetFile>>].schema = res.df[1].schema
    /\ Len(fs[res.item].files[<<"k=1", ParquetFile>>].rows) > 1

\* the item directories on disk under the subject
ItemsOnDisk(tree) == DOMAIN tree \ {SnapshotsDir}

\* C27: through a sequence of successful write, append and
\* delete_item(confirm=False) calls made with one Subject object, the
\* object's items collection stays equal to the set of item directories on
\* disk: each such call takes the one to the other.
C27_ItemsMatchDisk ==
    [][(/\ res'.op \in {"write", "append", "delete_item"}
        /\ res'.status = "ok"
        /\ handles[res'.h].items = ItemsOnDisk(fs))
        => handles'[res'.h].items = ItemsOnDisk(fs')]_vars

\* an append has made the directory of an item that the items collection of
\* the Subject object lacks
C27_Witness ==
    /\ res.op = "append"
    /\ res.status = "ok"
    /\ res.item \in ItemsOnDisk(fs)
    /\ res.item \notin handles[res.h].items
    /\ fs[res.item].files # EmptyDict

\* write and delete_item keep the collection equal to the directories
WriteAndDeleteKeepItems ==
    [][(/\ res'.op \in {"write", "delete_item"}
        /\ res'.status = "ok"
        /\ handles[res'.h].items = ItemsOnDisk(fs))
        => handles'[res'.h].items = ItemsOnDisk(fs')]_vars

\* every data file of the directory has every column of the schema, with the
\* declared type
FilesFollow(dir, schema) ==
    \A p \in DOMAIN dir.files : \A c \in DOMAIN schema :
        /\ c \in DOMAIN dir.files[p].schema
        /\ dir.files[p].schema[c] = schema[c]

\* a successful call of one of the operations ops in a subject with a
\* declared schema; a write is one that gives no schema of its own
UnderDeclaredSchema(ops) ==
    /\ res'.op \in ops
    /\ res'.status = "ok"
    /\ handles[res'.h].schema # EmptyDict
    /\ res'.op = "write" => res'.schema = handles[res'.h].schema

\* C28: in a subject with a declared schema, after every write and every
\* append to an item, every data file of the item has every declared column
\* with the declared type: append, like write, adds the missing columns as
\* typed nulls and casts the others.
C28_SchemaGovernsFiles ==
    [][UnderDeclaredSchema({"write", "append"})
        => FilesFollow(DirOf(fs', res'.item), handles[res'.h].schema)]_vars

\* an append in a subject that declares t as Float64 has made a key file
\* whose column t is Int64
C28_Witness ==
    /\ res.op = "append"
    /\ res.status = "ok"
    /\ PartitionedOnK(res.h)
    /\ "t" \in DOMAIN handles[res.h].schema
    /\ handles[res.h].schema["t"] = Float64
    /\ res.df[1].schema = [c \in {"k", "t"} |-> Int64]
    /\ res.rewritten = 1
    /\ fs[res.item].files[<<"k=0", ParquetFile>>].schema["t"] = Int64

\* write alone keeps the files of the item to the declared schema
SchemaGovernsWrite ==
    [][UnderDeclaredSchema({"write"})
        => FilesFollow(DirOf(fs', res'.item), handles[res'.h].schema)]_vars

\* where append puts a row of its input
AppendPathOfRow(h, row) ==
    PartitionDir(KeyColumns(h), KeyTuple(row, KeyColumns(h))) \o <<ParquetFile>>

\* the rows of the input of the call that belong to the file at path p, in
\* input order
RowsFor(h, rows, p) ==
    SelectSeq(rows, LAMBDA r : IF res'.op = "write" THEN PathOfRow(h, r) = p
                                                    ELSE AppendPathOfRow(h, r) = p)

\* the files a successful write or append has written: all files of the
\* item for a write, the files of the incoming keys for an append
Rewritten ==
    IF res'.op = "write" THEN DOMAIN fs'[res'.item].files
    ELSE IF handles[res'.h].partition_on = None THEN {<<ParquetFile>>}
    ELSE {AppendPathOfRow(res'.h, res'.df[1].rows[i]) : i \in DOMAIN res'.df[1].rows}

\* C29: every file written by write or rewritten by append is ordered by
\* the sort_on argument of the call when one is given, else by the sort_on
\* the subject declares; when there is neither, a file written by write has
\* its input rows in input order and a file rewritten by append has the
\* rows it had followed by the new rows.
C29_EffectiveSortKey ==
    [][(res'.op \in {"write", "append"} /\ res'.status = "ok")
        => LET h == res'.h
               arg == res'.sort_on
               declared == handles[h].sort_on
               effective == IF arg # None THEN arg ELSE declared
               input == res'.df[1].rows
               before == DirOf(fs, res'.item)
               after == DirOf(fs', res'.item)
           IN \A p \in Rewritten :
                 /\ p \in DOMAIN after.files
                 /\ effective # None => IsSortedBy(after.files[p].rows, effective[1])
                 /\ (effective = None /\ res'.op = "write")
                       => after.files[p].rows = RowsFor(h, input, p)
                 /\ (effective = None /\ res'.op = "append")
                       => after.files[p].rows = Held(before, p) \o RowsFor(h, input, p)]_vars

\* an append with sort_on = u in a subject that declares sort_on = t has
\* left a file ordered by u and not by t
C29_Witness ==
    /\ res.op = "append"
    /\ res.status = "ok"
    /\ res.sort_on = Some("u")
    /\ handles[res.h].sort_on = Some("t")
    /\ res.item \in DOMAIN fs
    /\ \E p \in DOMAIN fs[res.item].files :
          /\ Len(fs[res.item].files[p].rows) > Len(res.df[1].rows)
          /\ IsSortedBy(fs[res.item].files[p].rows, "u")
          /\ ~IsSortedBy(fs[res.item].files[p].rows, "t")

\* C30: when write overwrites an existing item, the keys of the metadata
\* document stored before (the time stamp _updated apart) are in the
\* document stored after the write with the values they had: all of them
\* when the call gives no metadata, those absent from the given metadata
\* when it gives some.
C30_OverwriteKeepsMetadata ==
    [][Overwrites =>
        LET old == read_metadata(fs[res'.item].meta)
            new == read_metadata(fs'[res'.item].meta)
        IN \A key \in DOMAIN old \ ({"_updated"} \cup DOMAIN res'.metadata) :
              key \in DOMAIN new /\ new[key] = old[key]]_vars

\* the second write to the item, an overwrite that gave no metadata, has
\* left a document that holds the time stamp only
C30_Witness ==
    /\ res.op = "write"
    /\ res.status = "ok"
    /\ res.overwrite
    /\ res.metadata = EmptyDict
    /\ now = 2
    /\ DOMAIN read_metadata(fs[res.item].meta) = {"_updated"}

\* what the code does: the document stored by a write is the metadata the
\* call gave, none when it gave none, and the time stamp
WriteStoresGivenMetadata ==
    [][(res'.op = "write" /\ res'.status = "ok")
        => read_metadata(fs'[res'.item].meta)
              = Merge(res'.metadata, "_updated" :> now)]_vars


----------------------------------------------------------------------------
(* C31..C33: the order of the sampled files, appends to disjoint keys side  *)
(* by side, the Subject object after save_subject_metadata.                 *)

\* the set of the files a call sampled
SampledSet(call) == {call.sampled[i] : i \in DOMAIN call.sampled}

\* C31: the schema suggest_subject_schema returns for a set of sampled files
\* does not depend on the order in which the files are listed: two calls
\* that sample the same files, in whatever order, return the same schema,
\* also for two Datetime types of one time unit and different time zones.
C31_OrderIndependent ==
    [][(/\ res.op = "suggest_subject_schema" /\ res.status = "ok"
        /\ res'.op = "suggest_subject_schema" /\ res'.status = "ok"
        /\ SampledSet(res') = SampledSet(res))
        => res'.out = res.out]_vars

\* for a file of Datetime(us) listed before one of Datetime(us, UTC) the
\* type without zone is suggested: the one of the file listed first
C31_Witness ==
    /\ SampledPair
    /\ FirstType = Datetime("us", None)
    /\ SecondType = Datetime("us", Some("UTC"))
    /\ SuggestedType = FirstType

\* the supported types but the Datetime ones
NoDatetime == {t \in SuggestTypes : t.cls # "Datetime"}

\* over the types other than Datetime the order of two sampled files does
\* not change the suggested type
OrderIndependentButDatetime ==
    /\ \A b \in NoDatetime :
          SampledPair /\ FirstType.cls # "Datetime"
              => get_most_permissive_type(FirstType, b)
                     = get_most_permissive_type(b, FirstType)
    /\ (SampledPair /\ FirstType.cls # "Datetime" /\ SecondType.cls # "Datetime")
          => SuggestedType = get_most_permissive_type(SecondType, FirstType)

\* the key tuples of the rows of the append of writer w
KeysOf(w) ==
    KeyTuples(writers[w].call.df[1].rows, handles[writers[w].call.h].partition_on[1].val)

\* the appends of w1 and w2 have both returned, w1 began first, they were to
\* the same item and their rows have no key tuple in common
DisjointAppends(w1, w2) ==
    /\ w1 \in DOMAIN writers
    /\ w2 \in DOMAIN writers
    /\ writers[w1].pc = "done"
    /\ writers[w2].pc = "done"
    /\ writers[w1].started < writers[w2].started
    /\ writers[w1].call.item = writers[w2].call.item
    /\ KeysOf(w1) # {}
    /\ KeysOf(w2) # {}
    /\ KeysOf(w1) \cap KeysOf(w2) = {}

\* the directories the whole append of writer w may leave of directory dir
AppendedWhole(dir, w) ==
    LET cols == handles[writers[w].call.h].partition_on[1].val
    IN {o.dir : o \in UNION {AppendGroups(dir, cols, order, writers[w].call.df[1],
                                           writers[w].call.sort) :
                                order \in GroupOrders(KeysOf(w))}}

\* the directories that the append of wa and after it the append of wb leave
\* of directory dir
OneAfterTheOther(dir, wa, wb) ==
    UNION {AppendedWhole(d, wb) : d \in AppendedWhole(dir, wa)}

\* C32: two key-partitioned appends to the same item whose rows have no key
\* tuple in common leave, however their reads and rewrites of the key files
\* interleave, the files that the two appends leave when one runs after the
\* other, in either order, from the directory the first of them found.
C32_DisjointAppendsSerial ==
    \A w1, w2 \in Writers :
        DisjointAppends(w1, w2) =>
            LET item == writers[w1].call.item
                found == writers[w1].before
            IN /\ item \in DOMAIN fs
               /\ fs[item] \in OneAfterTheOther(found, w1, w2)
               /\ fs[item] \in OneAfterTheOther(found, w2, w1)

\* writer 1 appends rows of the keys 0 and 1 and writer 2 a row of the key
\* 2, which has a file; writer 2 begins after writer 1 has rewritten a file
\* and returns before writer 1 does
C32_Witness ==
    /\ DisjointAppends(1, 2)
    /\ KeysOf(1) = {<<0>>, <<1>>}
    /\ KeysOf(2) = {<<2>>}
    /\ Held(writers[1].before, FileOfKey(2)) # << >>
    /\ writers[2].before.files # writers[1].before.files
    /\ res.w = 1
    /\ res.status = "ok"
    /\ Held(fs[<<"a">>], FileOfKey(2))
          = Held(writers[1].before, FileOfKey(2)) \o <<[k |-> 2, t |-> 0]>>

\* the last call was save_subject_metadata
Saved == res.op = "save_subject_metadata"

\* C33: after save_subject_metadata(m) the Subject object agrees with the
\* stored document: its metadata is the stored (merged) document, and its
\* partition_on and sort_on are the stored document's entries, so that the
\* next write or append through the object uses the policy just saved.
C33_HandleAgrees ==
    Saved =>
        LET self == handles[res.h]
            stored == read_metadata(subjMeta)
        IN /\ self.metadata = stored
           /\ self.partition_on = Get(stored, "partition_on")
           /\ self.sort_on = Get(stored, "sort_on")

\* a save of {"sort_on": "t"} with overwrite on a subject that declared no
\* sort_on: the stored document has the entry, the object's metadata is
\* the stored document, and the object's sort_on is still None
C33_Witness ==
    /\ Saved
    /\ res.overwrite
    /\ res.metadata = ("sort_on" :> "t")
    /\ Get(read_metadata(subjMeta), "sort_on") = Some("t")
    /\ handles[res.h].metadata = read_metadata(subjMeta)
    /\ handles[res.h].sort_on = None

\* after a save with overwrite the object's metadata is the stored document
MetadataAgreesOnOverwrite ==
    (Saved /\ res.overwrite) => handles[res.h].metadata = read_metadata(subjMeta)

\* a Subject object opened after the save has the policy of the stored
\* document
OpenedAgrees ==
    res.op = "open_subject" /\ res.status = "ok" =>
        LET self == handles[res.h]
            stored == read_metadata(subjMeta)
        IN /\ self.metadata = stored
           /\ self.partition_on = Get(stored, "partition_on")
           /\ self.sort_on = Get(stored, "sort_on")

====
